---- MODULE Spec2Model ----
(***************************************************************************)
(* TestFlight Apprise Notifier: the status-detection and change-           *)
(* notification pipeline of src/main.py and src/utils/testflight.py.       *)
(*                                                                         *)
(* Python strings are modelled as sequences of one-character strings, so   *)
(* that lower(), strip(), `in`, split() and f-string formatting are        *)
(* computed the way the code computes them.  Python dicts are functions    *)
(* whose DOMAIN is the set of keys present.  Time is in whole seconds.      *)
(***************************************************************************)
EXTENDS Integers, Sequences, FiniteSets, TLC

VARIABLES
    now,                 \* time.time() / datetime.now(), seconds
    _status_cache,       \* utils/testflight.py: url -> <<result, timestamp>>
    _cache_enabled,      \* utils/testflight.py: _cache_enabled
    _cache_ttl_seconds,  \* utils/testflight.py: _cache_ttl_seconds
    _rate_limiter,       \* utils/testflight.py: the global RateLimiter instance
    direct,              \* one direct caller of check_testflight_status (as the unit tests call it)
    current_id_list,     \* main.py: current_id_list
    _previous_status,    \* main.py: tf_id -> TestFlightStatus
    _request_failures,   \* main.py: url -> <<failures, last_failure>>
    _metrics,            \* main.py: the global MetricsCollector
    watch,               \* main.py: start_watching / watch, the scheduler's position
    task,                \* main.py: the fetch_testflight_status tasks of the current sweep
    retry,               \* one caller of check_testflight_status_with_retry
    api,                 \* the last call made on the cache, the circuit breaker or a rate limiter; or the sweeps' log
    shutdown_event,      \* main.py: shutdown_event is set
    _http_session,       \* main.py: the global _http_session: NoSession or a reference into sessions
    sessions,            \* every aiohttp.ClientSession created so far: "open" or "closed"
    main,                \* main.py: async_main's position
    current_apprise_urls,\* main.py: current_apprise_urls
    apobj,               \* main.py: the URLs loaded in the live Apprise object
    env_file,            \* the .env file: key -> list of values
    request              \* the dashboard's add/remove requests in progress

cacheVars == <<_status_cache, _cache_enabled, _cache_ttl_seconds>>
engineVars == <<current_id_list, _previous_status, _request_failures, _metrics, watch, task>>
lifeVars == <<shutdown_event, _http_session, sessions, main>>
adminVars == <<current_apprise_urls, apobj, env_file, request>>
vars == <<now, cacheVars, _rate_limiter, direct, engineVars, retry, api, lifeVars, adminVars>>

(***************************************************************************)
(* Bounds of the model.                                                    *)
(***************************************************************************)
\* The clock stops at MaxTime.
MaxTime == 450
\* check_testflight_status_with_retry is called with max_retries up to MaxRetriesBound.
MaxRetriesBound == 4
\* One Tick advances the clock by TickStep seconds.
TickStep == 150

(***************************************************************************)
(* Python string primitives.                                               *)
(***************************************************************************)
LowerOf ==
    [c \in {"A","B","C","D","E","F","G","H","I","J","K","L","M","N","O","P","Q","R","S","T","U","V","W","X","Y","Z"} |->
        CASE c = "A" -> "a" [] c = "B" -> "b" [] c = "C" -> "c" [] c = "D" -> "d"
          [] c = "E" -> "e" [] c = "F" -> "f" [] c = "G" -> "g" [] c = "H" -> "h"
          [] c = "I" -> "i" [] c = "J" -> "j" [] c = "K" -> "k" [] c = "L" -> "l"
          [] c = "M" -> "m" [] c = "N" -> "n" [] c = "O" -> "o" [] c = "P" -> "p"
          [] c = "Q" -> "q" [] c = "R" -> "r" [] c = "S" -> "s" [] c = "T" -> "t"
          [] c = "U" -> "u" [] c = "V" -> "v" [] c = "W" -> "w" [] c = "X" -> "x"
          [] c = "Y" -> "y" [] c = "Z" -> "z"]

\* str.lower() on one character
LowerChar(c) == IF c \in DOMAIN LowerOf THEN LowerOf[c] ELSE c

\* str.upper() on one character
UpperChar(c) ==
    IF \E u \in DOMAIN LowerOf : LowerOf[u] = c
    THEN CHOOSE u \in DOMAIN LowerOf : LowerOf[u] = c
    ELSE c

\* s.lower()
str_lower(s) == [i \in 1..Len(s) |-> LowerChar(s[i])]

\* s.capitalize(): first character upper-cased, the rest lower-cased
str_capitalize(s) == [i \in 1..Len(s) |-> IF i = 1 THEN UpperChar(s[i]) ELSE LowerChar(s[i])]

\* the characters str.strip() removes
Whitespace == {" ", "\n", "\t"}

\* s.strip()
str_strip(s) ==
    LET keep == {i \in 1..Len(s) : s[i] \notin Whitespace}
    IN  IF keep = {} THEN <<>>
        ELSE SubSeq(s, CHOOSE i \in keep : \A j \in keep : i <= j,
                       CHOOSE i \in keep : \A j \in keep : i >= j)

\* the places (0-based, as str.find) where sub occurs in s
Occurrences(sub, s) ==
    {i \in 0..(Len(s) - Len(sub)) : SubSeq(s, i + 1, i + Len(sub)) = sub}

\* `sub in s`
str_contains(sub, s) == Occurrences(sub, s) # {}

\* s.split(sep)[0]: the part of s before the first occurrence of sep
str_split_first(s, sep) ==
    LET occ == Occurrences(sep, s)
    IN  IF occ = {} THEN s
        ELSE SubSeq(s, 1, CHOOSE i \in occ : \A j \in occ : i <= j)

RECURSIVE str_remove_all(_, _)
\* s.replace(old, ""): every non-overlapping occurrence of old removed, left to right
str_remove_all(s, old) ==
    IF Len(s) < Len(old) \/ Len(old) = 0 THEN s
    ELSE IF SubSeq(s, 1, Len(old)) = old
         THEN str_remove_all(SubSeq(s, Len(old) + 1, Len(s)), old)
         ELSE <<s[1]>> \o str_remove_all(Tail(s), old)

\* the decimal digits
Digits == <<"0","1","2","3","4","5","6","7","8","9">>

RECURSIVE str_int(_)
\* str(n) / f"{n}" for a natural number n
str_int(n) ==
    IF n < 10 THEN <<Digits[n + 1]>>
    ELSE str_int(n \div 10) \o <<Digits[(n % 10) + 1]>>

(***************************************************************************)
(* utils/testflight.py: TestFlightStatus and STATUS_PATTERNS.              *)
(***************************************************************************)
OPEN == "OPEN"
FULL == "FULL"
CLOSED == "CLOSED"
UNKNOWN == "UNKNOWN"
ERROR == "ERROR"

TestFlightStatus == {OPEN, FULL, CLOSED, UNKNOWN, ERROR}

\* TestFlightStatus.<member>.value
StatusValue(status) ==
    CASE status = OPEN -> <<"o","p","e","n">>
      [] status = FULL -> <<"f","u","l","l">>
      [] status = CLOSED -> <<"c","l","o","s","e","d">>
      [] status = UNKNOWN -> <<"u","n","k","n","o","w","n">>
      [] status = ERROR -> <<"e","r","r","o","r">>

\* STATUS_PATTERNS with FULL and OPEN exchanged (a faulty variant of the declaration order)
STATUS_PATTERNS_OpenFirst ==
    << [status |-> OPEN,
        patterns |-> << <<"j","o","i","n"," ","t","h","e"," ","b","e","t","a">>, <<"s","t","a","r","t"," ","t","e","s","t","i","n","g">> >>],
       [status |-> CLOSED,
        patterns |-> << <<"n","o"," ","l","o","n","g","e","r"," ","a","c","c","e","p","t","i","n","g"," ","t","e","s","t","e","r","s">>,
                        <<"n","o","t"," ","a","c","c","e","p","t","i","n","g"," ","a","n","y"," ","n","e","w"," ","t","e","s","t","e","r","s">>,
                        <<"t","h","i","s"," ","b","e","t","a"," ","i","s","n","'","t"," ","a","c","c","e","p","t","i","n","g">> >>],
       [status |-> FULL,
        patterns |-> << <<"t","h","i","s"," ","b","e","t","a"," ","i","s"," ","f","u","l","l">>, <<"b","e","t","a"," ","i","s"," ","f","u","l","l">> >>] >>

\* The dict in its declaration order, which is the order its items() are iterated in.
STATUS_PATTERNS ==
    << [status |-> FULL,
        patterns |-> << <<"t","h","i","s"," ","b","e","t","a"," ","i","s"," ","f","u","l","l">>, <<"b","e","t","a"," ","i","s"," ","f","u","l","l">> >>],
       [status |-> CLOSED,
        patterns |-> << <<"n","o"," ","l","o","n","g","e","r"," ","a","c","c","e","p","t","i","n","g"," ","t","e","s","t","e","r","s">>,
                        <<"n","o","t"," ","a","c","c","e","p","t","i","n","g"," ","a","n","y"," ","n","e","w"," ","t","e","s","t","e","r","s">>,
                        <<"t","h","i","s"," ","b","e","t","a"," ","i","s","n","'","t"," ","a","c","c","e","p","t","i","n","g">> >>],
       [status |-> OPEN,
        patterns |-> << <<"j","o","i","n"," ","t","h","e"," ","b","e","t","a">>, <<"s","t","a","r","t"," ","t","e","s","t","i","n","g">> >>] >>

(***************************************************************************)
(* The fetched page, as BeautifulSoup sees it: an optional <title>, an     *)
(* optional ".beta-status span" element, and the rest of the body text.    *)
(***************************************************************************)
Page(has_title, title, has_status, status_text, body) ==
    [has_title |-> has_title, title |-> title,
     has_status |-> has_status, status_text |-> status_text, body |-> body]

\* soup.get_text(separator=" "): the page's text nodes in document order
get_text(page) ==
    LET nodes == << IF page.has_title THEN page.title ELSE <<>>,
                    IF page.has_status THEN page.status_text ELSE <<>>,
                    page.body >>
        present == SelectSeq(nodes, LAMBDA n : Len(n) > 0)
    IN  IF Len(present) = 0 THEN <<>>
        ELSE IF Len(present) = 1 THEN present[1]
        ELSE IF Len(present) = 2 THEN present[1] \o <<" ">> \o present[2]
        ELSE present[1] \o <<" ">> \o present[2] \o <<" ">> \o present[3]

(***************************************************************************)
(* check_testflight_status: the result dict.  `keys` holds the optional    *)
(* keys ("error", "app_name", "raw_text") the dict has.                    *)
(***************************************************************************)
InitialResult(url, use_rate_limit) ==
    [url |-> url, status |-> UNKNOWN, status_text |-> <<"U","n","k","n","o","w","n">>,
     cached |-> FALSE, rate_limited |-> use_rate_limit,
     keys |-> {}, error |-> <<>>, app_name |-> <<>>, raw_text |-> <<>>]

\* result[key] = value for one of the optional keys
SetKey(result, key, value) ==
    [[result EXCEPT ![key] = value] EXCEPT !.keys = @ \cup {key}]

\* result.get("error", "Unknown error")
GetError(result) ==
    IF "error" \in result.keys THEN result.error ELSE <<"U","n","k","n","o","w","n"," ","e","r","r","o","r">>

\* A non-200 result that leaves the code out of the status text (a faulty variant)
HttpErrorResult_NoCode(result, http_status) ==
    SetKey([result EXCEPT !.status = ERROR, !.status_text = <<"H","T","T","P"," ","e","r","r","o","r">>],
           "error", <<"H","T","T","P"," ","e","r","r","o","r",":"," ">> \o str_int(http_status))

\* resp.status == 404 / resp.status != 200
HttpErrorResult(result, http_status) ==
    IF http_status = 404
    THEN SetKey([result EXCEPT !.status = ERROR, !.status_text = <<"N","o","t"," ","F","o","u","n","d"," ","(","4","0","4",")">>],
                "error", <<"T","e","s","t","F","l","i","g","h","t"," ","p","a","g","e"," ","d","o","e","s"," ","n","o","t"," ","e","x","i","s","t">>)
    ELSE SetKey([result EXCEPT !.status = ERROR,
                               !.status_text = <<"H","T","T","P"," ">> \o str_int(http_status)],
                "error", <<"H","T","T","P"," ","e","r","r","o","r",":"," ">> \o str_int(http_status))

\* the title handling: app_name from "Join the [App Name] beta - TestFlight"
ExtractAppName(result, page) ==
    IF page.has_title /\ str_contains(<<" ","b","e","t","a"," ","-"," ","T","e","s","t","F","l","i","g","h","t">>, str_strip(page.title))
    THEN SetKey(result, "app_name",
                str_remove_all(str_split_first(str_strip(page.title), <<" ","b","e","t","a"," ","-"," ","T","e","s","t","F","l","i","g","h","t">>),
                               <<"J","o","i","n"," ","t","h","e"," ">>))
    ELSE result

\* raw_status_text: the stripped text of the status element, "" without one
RawStatusText(page) ==
    IF page.has_status THEN str_strip(page.status_text) ELSE <<>>

\* page_text: the lower-cased text the patterns are looked up in
PageText(page) ==
    IF RawStatusText(page) = <<>>
    THEN str_lower(get_text(page))
    ELSE str_lower(RawStatusText(page))

RECURSIVE DetectFrom(_, _)
\* the loop over STATUS_PATTERNS.items() from its i-th item on: the first
\* status with a pattern in page_text, "" when the loop ends undetected
DetectFrom(i, page_text) ==
    IF i > Len(STATUS_PATTERNS) THEN ""
    ELSE IF \E j \in 1..Len(STATUS_PATTERNS[i].patterns) :
                str_contains(STATUS_PATTERNS[i].patterns[j], page_text)
         THEN STATUS_PATTERNS[i].status
         ELSE DetectFrom(i + 1, page_text)

\* the HTTP 200 branch: parse, classify
ParseResult(result, page) ==
    LET r1 == ExtractAppName(result, page)
        raw_status_text == RawStatusText(page)
        page_text == PageText(page)
        r2 == SetKey(r1, "raw_text",
                     IF raw_status_text # <<>> THEN raw_status_text
                     ELSE SubSeq(page_text, 1, IF Len(page_text) < 100 THEN Len(page_text) ELSE 100))
        detected == DetectFrom(1, page_text)
    IN  IF detected # ""
        THEN [r2 EXCEPT !.status = detected,
                        !.status_text = str_capitalize(StatusValue(detected))]
        ELSE [r2 EXCEPT !.status = UNKNOWN, !.status_text = <<"U","n","k","n","o","w","n"," ","s","t","a","t","u","s">>]

\* the default of the timeout parameter
DefaultTimeout == 10

\* a faulty variant: the exception is swallowed and the result left as it was
ExceptionResult_Swallowed(result, resp) == result

\* the three except clauses
ExceptionResult(result, resp) ==
    CASE resp.kind = "timeout" ->
            SetKey([result EXCEPT !.status = ERROR, !.status_text = <<"T","i","m","e","o","u","t">>],
                   "error", <<"R","e","q","u","e","s","t"," ","t","i","m","e","d"," ","o","u","t"," ","a","f","t","e","r"," ">> \o str_int(DefaultTimeout) \o <<"s">>)
      [] resp.kind = "client_error" ->
            SetKey([result EXCEPT !.status = ERROR, !.status_text = <<"N","e","t","w","o","r","k"," ","E","r","r","o","r">>],
                   "error", <<"N","e","t","w","o","r","k"," ","e","r","r","o","r",":"," ">> \o resp.msg)
      [] resp.kind = "exception" ->
            SetKey([result EXCEPT !.status = ERROR, !.status_text = <<"E","r","r","o","r">>],
                   "error", <<"U","n","e","x","p","e","c","t","e","d"," ","e","r","r","o","r",":"," ">> \o resp.msg)

\* What session.get produces: an HTTP response or an exception.
HttpResponse(http_status, page) ==
    [kind |-> "http", http_status |-> http_status, page |-> page, msg |-> <<>>]

RaisedResponse(kind, msg) ==
    [kind |-> kind, http_status |-> 0, page |-> Page(FALSE, <<>>, FALSE, <<>>, <<>>), msg |-> msg]

\* the try block of check_testflight_status: the result for one response
FetchResult(url, use_rate_limit, resp) ==
    LET result == InitialResult(url, use_rate_limit)
    IN  IF resp.kind # "http" THEN ExceptionResult(result, resp)
        ELSE IF resp.http_status # 200 THEN HttpErrorResult(result, resp.http_status)
        ELSE ParseResult(result, resp.page)

(***************************************************************************)
(* The result cache.                                                       *)
(***************************************************************************)
\* del d[key]
DictDel(d, key) == [k \in DOMAIN d \ {key} |-> d[k]]

\* d[key] = value
DictSet(d, key, value) == [k \in DOMAIN d \cup {key} |-> IF k = key THEN value ELSE d[k]]

\* a faulty variant: an entry is given up at half its TTL
get_cached_status_HalfTtl(url) ==
    IF ~_cache_enabled \/ url \notin DOMAIN _status_cache THEN <<>>
    ELSE IF 2 * (now - _status_cache[url][2]) < _cache_ttl_seconds
         THEN <<_status_cache[url][1]>>
         ELSE <<>>

\* get_cached_status: the value returned (<<>> for None) ...
get_cached_status(url) ==
    IF ~_cache_enabled \/ url \notin DOMAIN _status_cache THEN <<>>
    ELSE IF now - _status_cache[url][2] < _cache_ttl_seconds
         THEN <<_status_cache[url][1]>>
         ELSE <<>>

\* a faulty variant: an expired entry stays in the cache
CacheAfterGet_KeepsExpired(url) == _status_cache

\* ... and the cache it leaves: an expired entry is deleted
CacheAfterGet(url) ==
    IF ~_cache_enabled \/ url \notin DOMAIN _status_cache THEN _status_cache
    ELSE IF now - _status_cache[url][2] < _cache_ttl_seconds
         THEN _status_cache
         ELSE DictDel(_status_cache, url)

\* a faulty variant: the result is stored whether the cache is enabled or not
cache_status_Always(cache, url, result) == DictSet(cache, url, <<result, now>>)

\* cache_status(url, result) applied to the cache `cache`
cache_status(cache, url, result) ==
    IF _cache_enabled THEN DictSet(cache, url, <<result, now>>) ELSE cache

\* the cache-hit branch: the cached dict itself gets its two flags set,
\* so the entry in the cache changes with it
CacheAfterHit(url) ==
    DictSet(_status_cache, url,
            << [_status_cache[url][1] EXCEPT !.cached = TRUE, !.rate_limited = FALSE],
               _status_cache[url][2] >>)

\* a faulty variant: the dict is returned without its flags set
HitResult_Untagged(url) == get_cached_status(url)[1]

\* the cache-hit branch: the dict returned
HitResult(url) ==
    [get_cached_status(url)[1] EXCEPT !.cached = TRUE, !.rate_limited = FALSE]

\* a faulty variant: the result is cached whatever the outcome of the request
CachesResult_Always(resp) == resp.kind # "none"

\* cache_status(url, result) is called on the path of a 200 response only
CachesResult(resp) == resp.kind = "http" /\ resp.http_status = 200

(***************************************************************************)
(* The rate limiter.                                                       *)
(***************************************************************************)
RECURSIVE PruneOld(_, _, _)
\* the while loop of acquire: pop requests older than the window off the left
PruneOld(requests, t, time_window) ==
    IF requests # <<>> /\ (t - Head(requests)) > time_window
    THEN PruneOld(Tail(requests), t, time_window)
    ELSE requests

\* RateLimiter(max_requests, time_window)
RateLimiter(max_requests, time_window) ==
    [max_requests |-> max_requests, time_window |-> time_window, requests |-> <<>>,
     lock |-> FALSE]

\* acquire() finds a free slot without waiting
CanAcquire(rl) ==
    Len(PruneOld(rl.requests, now, rl.time_window)) < rl.max_requests

\* acquire() when it does not have to wait: prune, then record the request
Acquire(rl) ==
    [rl EXCEPT !.requests = Append(PruneOld(rl.requests, now, rl.time_window), now)]

\* max(0, n)
MaxZero(n) == IF n > 0 THEN n ELSE 0

\* a faulty variant: remaining is not floored
Remaining_Signed(max_requests, recent) == max_requests - recent

\* "remaining": max(0, self.max_requests - recent)
Remaining(max_requests, recent) == MaxZero(max_requests - recent)

\* get_stats(): the requests that are at most time_window old are counted
get_stats(rl) ==
    LET recent == Cardinality({ i \in 1..Len(rl.requests) :
                                   (now - rl.requests[i]) <= rl.time_window })
    IN  [max_requests |-> rl.max_requests,
         time_window |-> rl.time_window,
         current_requests |-> recent,
         remaining |-> Remaining(rl.max_requests, recent)]

\* _rate_limiter = RateLimiter(max_requests=100, time_window=60)
DefaultMaxRequests == 100
DefaultTimeWindow == 60

(***************************************************************************)
(* The monitored ids and their URLs.                                       *)
(***************************************************************************)
TESTFLIGHT_URL == <<"h","t","t","p","s",":","/","/","t","e","s","t","f","l","i","g","h","t",".","a","p","p","l","e",".","c","o","m","/","j","o","i","n","/">>

RECURSIVE str_rstrip_slash(_)
\* s.rstrip("/")
str_rstrip_slash(s) ==
    IF s # <<>> /\ s[Len(s)] = "/" THEN str_rstrip_slash(SubSeq(s, 1, Len(s) - 1)) ELSE s

RECURSIVE str_lstrip_slash(_)
\* s.lstrip("/")
str_lstrip_slash(s) ==
    IF s # <<>> /\ s[1] = "/" THEN str_lstrip_slash(Tail(s)) ELSE s

\* utils/formatting.py: format_link
format_link(base_url, tf_id) ==
    str_rstrip_slash(base_url) \o <<"/">> \o str_lstrip_slash(tf_id)

\* the ids the model monitors
TfIds == { <<"a","b","c","1","2","3","4","5">>, <<"x","y","z","9","8","7","6","5">> }

(***************************************************************************)
(* What the server may answer.                                             *)
(***************************************************************************)
\* pieces of page text: every pattern, in several letter cases, parts of
\* patterns that only match when joined, and text that matches nothing
TextChunks ==
    { <<>>, <<"h","e","l","l","o"," ">>,
      <<"t","h","i","s"," ","b","e","t","a"," ","i","s"," ","f","u","l","l">>, <<"T","h","i","s"," ","B","e","t","a"," ","I","s"," ","F","u","l","l",".">>,
      <<"b","e","t","a"," ","i","s"," ">>, <<"f","u","l","l">>,
      <<"n","o"," ","l","o","n","g","e","r"," ","a","c","c","e","p","t","i","n","g"," ","t","e","s","t","e","r","s">>, <<"N","o","t"," ","a","c","c","e","p","t","i","n","g"," ","a","n","y"," ","n","e","w"," ","t","e","s","t","e","r","s">>,
      <<"T","h","i","s"," ","b","e","t","a"," ","i","s","n","'","t"," ","a","c","c","e","p","t","i","n","g">>,
      <<"j","o","i","n"," ","t","h","e"," ","b","e","t","a">>, <<"J","O","I","N"," ","T","H","E"," ","B","E","T","A">>, <<"S","t","a","r","t"," ","T","e","s","t","i","n","g">> }

\* body texts: two chunks in a row
Bodies == { a \o b : a \in TextChunks, b \in TextChunks }

\* texts of the ".beta-status span" element
StatusElementTexts ==
    { <<>>, <<" ", "\n">>,
      <<"T","h","i","s"," ","b","e","t","a"," ","i","s"," ","f","u","l","l",".">>, <<" ","j","o","i","n"," ","t","h","e"," ","b","e","t","a"," ">>, <<"N","o"," ","L","o","n","g","e","r"," ","A","c","c","e","p","t","i","n","g"," ","T","e","s","t","e","r","s">>,
      <<"W","e","l","c","o","m","e">> }

\* <title> texts
Titles == { <<"J","o","i","n"," ","t","h","e"," ","M","y"," ","A","p","p"," ","b","e","t","a"," ","-"," ","T","e","s","t","F","l","i","g","h","t"," ","-"," ","A","p","p","l","e">>, <<"S","t","a","r","t"," ","t","e","s","t","i","n","g"," ","t","o","d","a","y">> }

\* every page built from these
AllPages ==
    { Page(ht, t, hs, st, b) :
        ht \in {TRUE}, t \in Titles, hs \in {TRUE}, st \in StatusElementTexts, b \in Bodies }
    \cup { Page(FALSE, <<>>, TRUE, st, b) : st \in StatusElementTexts, b \in Bodies }
    \cup { Page(TRUE, t, FALSE, <<>>, b) : t \in Titles, b \in Bodies }
    \cup { Page(FALSE, <<>>, FALSE, <<>>, b) : b \in Bodies }

\* the page of the unit test test_check_status_open
OpenPage == Page(TRUE, <<"J","o","i","n"," ","t","h","e"," ","M","y"," ","A","p","p"," ","b","e","t","a"," ","-"," ","T","e","s","t","F","l","i","g","h","t"," ","-"," ","A","p","p","l","e">>, FALSE, <<>>, <<"j","o","i","n"," ","t","h","e"," ","b","e","t","a">>)

\* the page of the unit test test_check_status_full
FullPage == Page(FALSE, <<>>, TRUE, <<"T","h","i","s"," ","b","e","t","a"," ","i","s"," ","f","u","l","l",".">>, <<>>)

\* HTTP status codes other than 200
ErrorCodes == {404, 500, 503, 403, 301, 204}

\* str(e) of the exceptions raised
ErrorMessages == { <<"C","o","n","n","e","c","t","i","o","n"," ","r","e","s","e","t">>, <<>> }

\* the answers a direct call may get
FetchResponses ==
    { HttpResponse(200, p) : p \in AllPages }
    \cup { HttpResponse(c, p) : c \in ErrorCodes, p \in {OpenPage, FullPage} }
    \cup { RaisedResponse("timeout", <<>>) }
    \cup { RaisedResponse(k, m) : k \in {"client_error", "exception"}, m \in ErrorMessages }

(***************************************************************************)
(* A direct call of check_testflight_status(session, url, timeout,         *)
(* use_cache, use_rate_limit), as the unit tests make it.                  *)
(***************************************************************************)
\* the URL the unit tests pass
DirectUrl == <<"h","t","t","p","s",":","/","/","t","e","s","t","f","l","i","g","h","t",".","a","p","p","l","e",".","c","o","m","/","j","o","i","n","/","a","b","c","1","2","3">>

NoResponse == RaisedResponse("none", <<>>)

\* Python's None where a result dict is expected
NoResult == [InitialResult(<<>>, FALSE) EXCEPT !.status = "None"]

IdleCall ==
    [pc |-> "idle", url |-> <<>>, use_cache |-> FALSE, use_rate_limit |-> FALSE,
     resp |-> NoResponse, result |-> NoResult]

\* the call up to its first suspension: cache lookup, rate limiter, session.get
DirectCall(url, use_cache, use_rate_limit) ==
    /\ direct.pc = "idle"
    /\ IF use_cache /\ get_cached_status(url) # <<>>
       THEN /\ _status_cache' = CacheAfterHit(url)
            /\ direct' = [pc |-> "returned", url |-> url, use_cache |-> use_cache,
                          use_rate_limit |-> use_rate_limit, resp |-> NoResponse,
                          result |-> HitResult(url)]
            /\ UNCHANGED _rate_limiter
       ELSE /\ _status_cache' = IF use_cache THEN CacheAfterGet(url) ELSE _status_cache
            /\ use_rate_limit => CanAcquire(_rate_limiter)
            /\ _rate_limiter' = IF use_rate_limit THEN Acquire(_rate_limiter) ELSE _rate_limiter
            /\ direct' = [pc |-> "http", url |-> url, use_cache |-> use_cache,
                          use_rate_limit |-> use_rate_limit, resp |-> NoResponse,
                          result |-> NoResult]
    /\ UNCHANGED <<lifeVars, adminVars, api, now, _cache_enabled, _cache_ttl_seconds, engineVars, retry>>

\* the response arrives: classify, cache a classified page, return
DirectRespond(resp) ==
    /\ direct.pc = "http"
    /\ LET result == FetchResult(direct.url, direct.use_rate_limit, resp)
       IN  /\ direct' = [direct EXCEPT !.pc = "returned", !.resp = resp, !.result = result]
           /\ _status_cache' =
                 IF CachesResult(resp)
                 THEN cache_status(_status_cache, direct.url, result)
                 ELSE _status_cache
    /\ UNCHANGED <<lifeVars, adminVars, api, now, _cache_enabled, _cache_ttl_seconds, _rate_limiter, engineVars, retry>>

\* time passes
Tick ==
    /\ now + TickStep <= MaxTime
    /\ now' = now + TickStep
    /\ UNCHANGED <<lifeVars, adminVars, api, cacheVars, _rate_limiter, direct, engineVars, retry>>

\* enable_status_cache(ttl_seconds=300), as main.py calls it at import
MainCacheTtl == 300


(***************************************************************************)
(* main.py: the circuit breaker.                                           *)
(***************************************************************************)
_circuit_breaker_threshold == 5
_circuit_breaker_timeout == 300

\* a faulty variant: the circuit opens one failure late
is_circuit_breaker_open_Above(failures, url) ==
    /\ url \in DOMAIN failures
    /\ failures[url][1] > _circuit_breaker_threshold
    /\ now - failures[url][2] < _circuit_breaker_timeout

\* is_circuit_breaker_open(url): the value returned ...
is_circuit_breaker_open(failures, url) ==
    /\ url \in DOMAIN failures
    /\ failures[url][1] >= _circuit_breaker_threshold
    /\ now - failures[url][2] < _circuit_breaker_timeout

\* ... and the dict it leaves: an entry over the threshold whose timeout
\* has passed is deleted
FailuresAfterIsOpen(failures, url) ==
    IF /\ url \in DOMAIN failures
       /\ failures[url][1] >= _circuit_breaker_threshold
       /\ ~(now - failures[url][2] < _circuit_breaker_timeout)
    THEN DictDel(failures, url)
    ELSE failures

\* record_request_failure(url)
record_request_failure(failures, url) ==
    DictSet(failures, url,
            << (IF url \in DOMAIN failures THEN failures[url][1] ELSE 0) + 1, now >>)

\* a faulty variant: a success takes one failure off the count
record_request_success_Decrement(failures, url) ==
    IF url \in DOMAIN failures
    THEN IF failures[url][1] > 1
         THEN DictSet(failures, url, << failures[url][1] - 1, failures[url][2] >>)
         ELSE DictDel(failures, url)
    ELSE failures

\* record_request_success(url)
record_request_success(failures, url) ==
    IF url \in DOMAIN failures THEN DictDel(failures, url) ELSE failures

(***************************************************************************)
(* main.py: MetricsCollector.                                              *)
(***************************************************************************)
\* MetricsCollector.__init__ (status_counts is keyed by the status)
MetricsCollector ==
    [total_checks |-> 0, successful_checks |-> 0, failed_checks |-> 0,
     status_counts |-> [s \in TestFlightStatus |-> 0]]

\* a faulty variant: a check that returned Error counts as a failed check
record_check_ErrorFails(m, status, success) ==
    IF success /\ status # ERROR
    THEN [m EXCEPT !.total_checks = @ + 1,
                   !.successful_checks = @ + 1,
                   !.status_counts[status] = @ + 1]
    ELSE [m EXCEPT !.total_checks = @ + 1,
                   !.failed_checks = @ + 1,
                   !.status_counts[ERROR] = @ + 1]

\* MetricsCollector.record_check(status, success)
record_check(m, status, success) ==
    IF success
    THEN [m EXCEPT !.total_checks = @ + 1,
                   !.successful_checks = @ + 1,
                   !.status_counts[status] = @ + 1]
    ELSE [m EXCEPT !.total_checks = @ + 1,
                   !.failed_checks = @ + 1,
                   !.status_counts[ERROR] = @ + 1]

(***************************************************************************)
(* main.py: the sweep.  start_watching sleeps 2 s, then runs watch() and   *)
(* sleeps SLEEP_TIME ms, again and again.  watch() copies the id list and  *)
(* gathers one fetch_testflight_status task per id.  A task runs from one  *)
(* await to the next in one step.                                          *)
(***************************************************************************)
\* INTERVAL_CHECK's default, in ms
SLEEP_TIME == 10000
\* the delay before the first sweep, in seconds
SettleDelay == 2

\* Python's None where a status is expected
None == "None"

\* the task slots of a sweep, in the order of the id list
SlotIds == <<"t1", "t2">>
Slots == {SlotIds[i] : i \in 1..Len(SlotIds)}

\* `_http_session = None`: the reference to no session
NoSession == 0

\* no task in this slot; gets counts the task's calls of session.get,
\* notify_calls its calls of apobj.notify, outcome is what the last one did
NoTask ==
    [pc |-> "none", tf_id |-> <<>>, resp |-> NoResponse, result |-> NoResult,
     previous_status |-> None, should_notify |-> FALSE, gets |-> 0, notify_calls |-> 0,
     outcome |-> None, session |-> NoSession]

\* a task gather has created and not yet run
NewTask(tf_id) == [NoTask EXCEPT !.pc = "created", !.tf_id = tf_id]

\* d.get(key)
DictGet(d, key) == IF key \in DOMAIN d THEN d[key] ELSE None

\* the answers a sweep's fetch may get
ClosedPage ==
    Page(TRUE, <<"J","o","i","n"," ","t","h","e"," ","M","y"," ","A","p","p"," ","b","e","t","a"," ","-"," ","T","e","s","t","F","l","i","g","h","t"," ","-"," ","A","p","p","l","e">>, TRUE,
         <<"T","h","i","s"," ","b","e","t","a"," ","i","s","n","'","t"," ","a","c","c","e","p","t","i","n","g"," ","a","n","y"," ","n","e","w"," ","t","e","s","t","e","r","s"," ","r","i","g","h","t"," ","n","o","w",".">>, <<>>)

UnknownPage == Page(TRUE, <<"J","o","i","n"," ","t","h","e"," ","M","y"," ","A","p","p"," ","b","e","t","a"," ","-"," ","T","e","s","t","F","l","i","g","h","t"," ","-"," ","A","p","p","l","e">>, FALSE, <<>>, <<"h","e","l","l","o"," ">>)

SweepResponses ==
    { HttpResponse(200, OpenPage), HttpResponse(200, FullPage),
      HttpResponse(200, ClosedPage), HttpResponse(200, UnknownPage),
      HttpResponse(404, OpenPage), RaisedResponse("timeout", <<>>) }

\* a faulty variant: an Error result is handled like any other status
ReturnsEarly_Never(result) == FALSE

\* `if result["status"] == TestFlightStatus.ERROR: ... return`
ReturnsEarly(result) == result.status = ERROR

\* a faulty variant: every Open classification notifies
ShouldNotify_EveryOpen(current_status, previous_status) ==
    CASE current_status = FULL ->
            previous_status # current_status /\ previous_status = OPEN
      [] current_status = OPEN -> TRUE
      [] OTHER -> FALSE

\* a faulty variant: every change to Full notifies
ShouldNotify_EveryChangeToFull(current_status, previous_status) ==
    CASE current_status = FULL -> previous_status # current_status
      [] current_status = OPEN -> previous_status = None \/ previous_status # OPEN
      [] OTHER -> FALSE

\* should_notify as the if/elif chain over result["status"] sets it
ShouldNotify(current_status, previous_status) ==
    LET status_changed == previous_status # current_status
    IN  CASE current_status = FULL -> status_changed /\ previous_status = OPEN
          [] current_status = CLOSED -> FALSE
          [] current_status = OPEN -> previous_status = None \/ previous_status # OPEN
          [] OTHER -> FALSE

\* result.get("app_name") is truthy
HasAppName(result) == "app_name" \in result.keys /\ result.app_name # <<>>

\* the log of the sweeps, for the specifications that start with one: a
\* line for each target classified (logging.warning / logging.info of
\* fetch_testflight_status) and for each call of apobj.notify
NoLog == [op |-> "log", lines |-> <<>>]

\* logging.info(...) and logging.warning(...)
Logged(a, event, tf_id, status) ==
    IF a.op = "log"
    THEN [a EXCEPT !.lines = Append(@, [event |-> event, tf_id |-> tf_id, status |-> status])]
    ELSE a

\* a faulty variant: the read is made before the lock is taken, so that a
\* task reads what a task of the same id read just before it wrote
StatusRead_BeforeLock(t, tk) ==
    IF \E u \in Slots \ {t} :
          task[u].tf_id = tk.tf_id /\ task[u].pc \in {"notify", "done", "raised"}
                                   /\ task[u].result.status \notin {ERROR, "None"}
    THEN task[CHOOSE u \in Slots \ {t} :
                 task[u].tf_id = tk.tf_id /\ task[u].pc \in {"notify", "done", "raised"}
                                          /\ task[u].result.status \notin {ERROR, "None"}].previous_status
    ELSE DictGet(_previous_status, tk.tf_id)

\* `previous_status = _previous_status.get(tf_id)`, inside `with _status_lock`
StatusRead(t, tk) == DictGet(_previous_status, tk.tf_id)

\* under _status_lock: read the previous status, store the current one;
\* then decide whether to notify
Decide(t, tk) ==
    LET previous_status == StatusRead(t, tk)
        should_notify == ShouldNotify(tk.result.status, previous_status)
    IN  /\ _previous_status' = DictSet(_previous_status, tk.tf_id, tk.result.status)
        /\ api' = Logged(api, "classified", tk.tf_id, tk.result.status)
        /\ task' = [task EXCEPT ![t] =
                       [tk EXCEPT !.previous_status = previous_status,
                                  !.should_notify = should_notify,
                                  !.pc = IF should_notify THEN "notify" ELSE "done"]]

\* fetch_testflight_status from the return of check_testflight_status to its
\* next await: record the check, return on Error, look the app name up if
\* the result has none, else decide
Handle(t, tk) ==
    /\ _metrics' = record_check(_metrics, tk.result.status, TRUE)
    /\ IF ReturnsEarly(tk.result)
       THEN /\ task' = [task EXCEPT ![t] = [tk EXCEPT !.pc = "done"]]
            /\ api' = Logged(api, "classified", tk.tf_id, tk.result.status)
            /\ UNCHANGED _previous_status
       ELSE IF ~HasAppName(tk.result)
       THEN /\ task' = [task EXCEPT ![t] = [tk EXCEPT !.pc = "get_app_name"]]
            /\ UNCHANGED <<_previous_status, api>>
       ELSE Decide(t, tk)

\* a faulty variant: the loop goes on whatever the event says
WhileNotShutdown_Ignored(is_set) == TRUE

\* `while not shutdown_event.is_set()`
WhileNotShutdown(is_set) == ~is_set

\* the state of the session the global refers to, None when it refers to none
SharedSession == IF _http_session = NoSession THEN None ELSE sessions[_http_session]

\* get_http_session with the test left out: a new ClientSession at every call
get_http_session_AlwaysNew(ref, heap) ==
    [ref |-> Len(heap) + 1, heap |-> Append(heap, "open")]

\* get_http_session(): the session the global refers to, after creating one
\* when `_http_session is None or _http_session.closed`; no await in it
get_http_session(ref, heap) ==
    IF ref = NoSession \/ heap[ref] = "closed"
    THEN [ref |-> Len(heap) + 1, heap |-> Append(heap, "open")]
    ELSE [ref |-> ref, heap |-> heap]

\* a faulty variant: the sweep goes over the list its predecessor copied
get_current_id_list_PreviousCopy == watch.current_ids

\* get_current_id_list(): a copy of current_id_list, taken under id_list_lock
get_current_id_list == current_id_list

\* `while not shutdown_event.is_set()`, get_current_id_list(),
\* get_http_session(), then one task per id, each given that session
StartSweep ==
    /\ watch.pc \in {"settle", "sleep"}
    /\ now >= watch.wake
    /\ WhileNotShutdown(shutdown_event)
    /\ LET current_ids == get_current_id_list
           got == get_http_session(_http_session, sessions)
       IN  /\ _http_session' = got.ref
           /\ sessions' = got.heap
           /\ watch' = [watch EXCEPT !.pc = "gather", !.current_ids = current_ids,
                                     !.session = got.ref]
           /\ task' = [t \in Slots |->
                  IF \E i \in 1..Len(current_ids) : SlotIds[i] = t
                  THEN [NewTask(current_ids[CHOOSE i \in 1..Len(current_ids) : SlotIds[i] = t])
                          EXCEPT !.session = got.ref]
                  ELSE NoTask]
    /\ UNCHANGED <<shutdown_event, main, adminVars, api, now, cacheVars, _rate_limiter, direct,
                   current_id_list, _previous_status, _request_failures, _metrics, retry>>

\* a task starts: check_testflight_status(session, url) up to session.get,
\* or through a cache hit to the task's next await
TaskBegin(t) ==
    /\ task[t].pc = "created"
    /\ LET url == format_link(TESTFLIGHT_URL, task[t].tf_id)
       IN  IF get_cached_status(url) # <<>>
           THEN /\ _status_cache' = CacheAfterHit(url)
                /\ Handle(t, [task[t] EXCEPT !.result =
                                 HitResult(url)])
                /\ UNCHANGED _rate_limiter
           ELSE /\ _status_cache' = CacheAfterGet(url)
                /\ CanAcquire(_rate_limiter)
                /\ _rate_limiter' = Acquire(_rate_limiter)
                /\ task' = [task EXCEPT ![t].pc = "http", ![t].gets = @ + 1]
                /\ UNCHANGED <<_previous_status, _metrics, api>>
    /\ UNCHANGED <<lifeVars, adminVars, now, _cache_enabled, _cache_ttl_seconds, direct,
                   current_id_list, _request_failures, watch, retry>>

\* the response arrives: classify, cache a classified page, handle the result
TaskRespond(t, resp) ==
    /\ task[t].pc = "http"
    /\ LET url == format_link(TESTFLIGHT_URL, task[t].tf_id)
           result == FetchResult(url, TRUE, resp)
       IN  /\ _status_cache' =
                 IF CachesResult(resp)
                 THEN cache_status(_status_cache, url, result)
                 ELSE _status_cache
           /\ Handle(t, [task[t] EXCEPT !.resp = resp, !.result = result])
    /\ UNCHANGED <<lifeVars, adminVars, now, _cache_enabled, _cache_ttl_seconds, _rate_limiter, direct,
                   current_id_list, _request_failures, watch, retry>>

\* get_app_name returns (it never raises); the task goes on to decide
TaskAppName(t) ==
    /\ task[t].pc = "get_app_name"
    /\ Decide(t, task[t])
    /\ UNCHANGED <<lifeVars, adminVars, now, cacheVars, _rate_limiter, direct,
                   current_id_list, _request_failures, _metrics, watch, retry>>

\* what apobj.notify may do: deliver, return False, or raise
NotifyOutcomes == {"sent", "failed", "raised"}

\* a faulty variant: what apobj.notify raises comes out of the wrapper
send_notification_Propagates(outcome) ==
    IF outcome = "raised" THEN "raised" ELSE "returned"

\* utils/notifications.py send_notification: apobj.notify is called inside
\* try / except Exception, its return value is not looked at
send_notification(outcome) == "returned"

\* format_notification_link, get_app_icon, then send_notification_async:
\* one call of apobj.notify; should the wrapper raise, the `except
\* Exception` of fetch_testflight_status records a failed check
TaskNotify(t, outcome) ==
    /\ task[t].pc = "notify"
    /\ IF send_notification(outcome) = "returned"
       THEN /\ task' = [task EXCEPT ![t].pc = "done", ![t].notify_calls = @ + 1,
                                    ![t].outcome = outcome]
            /\ UNCHANGED _metrics
       ELSE /\ task' = [task EXCEPT ![t].pc = "raised", ![t].notify_calls = @ + 1,
                                    ![t].outcome = outcome]
            /\ _metrics' = record_check(_metrics, ERROR, FALSE)
    /\ api' = Logged(api, "notify", task[t].tf_id, task[t].result.status)
    /\ UNCHANGED <<lifeVars, adminVars, now, cacheVars, _rate_limiter, direct, current_id_list,
                   _previous_status, _request_failures, watch, retry>>

\* send_notification_async raises (run_in_executor refuses the job): the
\* `except Exception` of fetch_testflight_status records a failed check and
\* the task ends
TaskRaise(t) ==
    /\ task[t].pc = "notify"
    /\ task' = [task EXCEPT ![t].pc = "raised"]
    /\ _metrics' = record_check(_metrics, ERROR, FALSE)
    /\ UNCHANGED <<lifeVars, adminVars, api, now, cacheVars, _rate_limiter, direct, current_id_list,
                   _previous_status, _request_failures, watch, retry>>

\* a task has run to its end, by a return or through its except clause
Settled(tk) == tk.pc \in {"none", "done", "raised", "cancelled"}

\* a faulty variant: gather returns as soon as one task failed
GatherReturns_FirstFailure(tasks) ==
    \/ \A t \in Slots : Settled(tasks[t])
    \/ \E t \in Slots : tasks[t].pc = "raised"
    \/ \E t \in Slots : tasks[t].pc = "done" /\ tasks[t].result.status = ERROR

\* await asyncio.gather(*tasks, return_exceptions=True) returns when every
\* task has ended
GatherReturns(tasks) == \A t \in Slots : Settled(tasks[t])

\* a faulty variant: no sleep between sweeps
SleepSeconds_None(ms) == 0

\* asyncio.sleep(SLEEP_TIME / 1000)
SleepSeconds(ms) == ms \div 1000

\* gather returns; start_watching sleeps SLEEP_TIME ms
EndSweep ==
    /\ watch.pc = "gather"
    /\ GatherReturns(task)
    /\ watch' = [watch EXCEPT !.pc = "sleep", !.ended_at = now,
                              !.wake = now + SleepSeconds(SLEEP_TIME)]
    /\ UNCHANGED <<lifeVars, adminVars, api, now, cacheVars, _rate_limiter, direct, current_id_list,
                   _previous_status, _request_failures, _metrics, task, retry>>

(***************************************************************************)
(* main.py: shutdown.  async_main waits for the first of its tasks to      *)
(* finish (shutdown_event.wait() is one of them), cancels the others,      *)
(* gathers them all and closes the shared session.  The heartbeat and the  *)
(* web server tasks are cancelled like the scheduler and are left out.     *)
(***************************************************************************)
\* handle_shutdown_signal(): shutdown_event.set()
Shutdown ==
    /\ ~shutdown_event
    /\ shutdown_event' = TRUE
    /\ UNCHANGED <<_http_session, sessions, main, adminVars, api, now, cacheVars, _rate_limiter,
                   direct, engineVars, retry>>

\* start_watching wakes from a sleep and finds shutdown_event set: the
\* while loop ends and the coroutine returns
WatchExit ==
    /\ watch.pc \in {"settle", "sleep"}
    /\ now >= watch.wake
    /\ ~WhileNotShutdown(shutdown_event)
    /\ watch' = [watch EXCEPT !.pc = "returned"]
    /\ UNCHANGED <<lifeVars, adminVars, api, now, cacheVars, _rate_limiter, direct,
                   current_id_list, _previous_status, _request_failures, _metrics,
                   task, retry>>

\* asyncio.wait returns because shutdown_task is done; async_main cancels
\* the pending tasks.  Cancelling start_watching cancels what it awaits:
\* its sleep, or watch()'s gather, which cancels every task not yet done.
MainCancel ==
    /\ main.pc = "wait"
    /\ shutdown_event
    /\ main' = [main EXCEPT !.pc = "gather"]
    /\ IF watch.pc \in {"settle", "sleep", "gather"}
       THEN /\ watch' = [watch EXCEPT !.pc = "cancelling"]
            /\ task' = [t \in Slots |->
                          IF Settled(task[t]) THEN task[t]
                          ELSE [task[t] EXCEPT !.pc = "cancelling"]]
       ELSE UNCHANGED <<watch, task>>
    /\ UNCHANGED <<shutdown_event, _http_session, sessions, adminVars, api, now, cacheVars,
                   _rate_limiter, direct, current_id_list, _previous_status,
                   _request_failures, _metrics, retry>>

\* a faulty variant: `except Exception` catches a cancellation as well
ExceptException_All(exc) == TRUE

\* `except Exception` catches every exception but asyncio.CancelledError,
\* which is a BaseException
ExceptException(exc) == exc # "CancelledError"

\* CancelledError is raised at the await the task is suspended at
TaskCancelled(t) ==
    /\ task[t].pc = "cancelling"
    /\ IF ExceptException("CancelledError")
       THEN /\ task' = [task EXCEPT ![t].pc = "raised"]
            /\ _metrics' = record_check(_metrics, ERROR, FALSE)
       ELSE /\ task' = [task EXCEPT ![t].pc = "cancelled"]
            /\ UNCHANGED _metrics
    /\ UNCHANGED <<lifeVars, adminVars, api, now, cacheVars, _rate_limiter, direct,
                   current_id_list, _previous_status, _request_failures, watch, retry>>

\* every cancelled task has ended: CancelledError comes out of gather, and
\* watch() and start_watching re-raise it; or it comes out of the sleep
WatchCancelled ==
    /\ watch.pc = "cancelling"
    /\ \A t \in Slots : Settled(task[t])
    /\ watch' = [watch EXCEPT !.pc = "cancelled"]
    /\ UNCHANGED <<lifeVars, adminVars, api, now, cacheVars, _rate_limiter, direct,
                   current_id_list, _previous_status, _request_failures, _metrics,
                   task, retry>>

\* a faulty variant: async_main does not wait for the tasks it cancelled
MainGatherReturns_NoWait(w) == TRUE

\* results = await asyncio.gather(*tasks, return_exceptions=True): every
\* task of async_main has ended, start_watching among them
MainGatherReturns(w) == w.pc \in {"cancelled", "returned"}

\* async_main's gather returns; finally: cleanup_http_session() closes the
\* session if there is an open one
MainCleanup ==
    /\ main.pc = "gather"
    /\ MainGatherReturns(watch)
    /\ IF _http_session # NoSession /\ sessions[_http_session] = "open"
       THEN /\ sessions' = [sessions EXCEPT ![_http_session] = "closed"]
            /\ main' = [main EXCEPT !.pc = "closing"]
       ELSE /\ main' = [main EXCEPT !.pc = "exited"]
            /\ UNCHANGED sessions
    /\ UNCHANGED _http_session
    /\ UNCHANGED <<shutdown_event, adminVars, api, now, cacheVars, _rate_limiter, direct,
                   engineVars, retry>>

\* _http_session.close() has returned: _http_session = None, and async_main
\* returns
MainExit ==
    /\ main.pc = "closing"
    /\ _http_session' = NoSession
    /\ main' = [main EXCEPT !.pc = "exited"]
    /\ UNCHANGED sessions
    /\ UNCHANGED <<shutdown_event, adminVars, api, now, cacheVars, _rate_limiter, direct,
                   engineVars, retry>>

(***************************************************************************)
(* main.py: the target list and the notification URLs, as the dashboard's  *)
(* requests change them.                                                   *)
(***************************************************************************)
\* APPRISE_URL as the environment gives it
APPRISE_URLS == << <<"j","s","o","n",":","/","/","a">> >>

\* the dashboard's requests
Requests == {"r1", "r2"}

\* no request in this slot; ok and message are what the request's call of
\* add_/remove_ returned, persisted whether update_env_file returned True,
\* rivals the requests that were validating the same id when this one began,
\* resp what validate_testflight_id's session.get produced, io the file and
\* network calls the request has made, each with the locks held at the call
NoRequest ==
    [pc |-> "idle", op |-> "none", arg |-> <<>>, ok |-> FALSE, message |-> <<>>,
     persisted |-> FALSE, rivals |-> {}, resp |-> NoResponse, io |-> <<>>]

\* the calls made in this order inside `with lock:`
WithLock(lock, calls) == [i \in 1..Len(calls) |-> [call |-> calls[i], held |-> {lock}]]

\* the calls made in this order with no lock held
WithoutLock(calls) == [i \in 1..Len(calls) |-> [call |-> calls[i], held |-> {}]]

\* update_env_file(...) and, if it returned True, send_notification(msg, apobj)
PersistAndNotify(written) ==
    IF written THEN <<"update_env_file", "send_notification">> ELSE <<"update_env_file">>

\* the URLs the dashboard may send
AppriseUrls == { <<"j","s","o","n",":","/","/","a">>, <<"j","s","o","n",":","/","/","b">> }

\* a faulty variant: nothing is ever found in the list
InList_Never(list, x) == FALSE

\* `x in list`
InList(list, x) == \E i \in 1..Len(list) : list[i] = x

\* [y for y in list if y != x]
RemoveAll(list, x) == SelectSeq(list, LAMBDA y : y # x)

\* list.remove(x): the first occurrence goes
RemoveFirst(list, x) ==
    LET i == CHOOSE j \in 1..Len(list) :
                 list[j] = x /\ \A k \in 1..(j - 1) : list[k] # x
    IN  SubSeq(list, 1, i - 1) \o SubSeq(list, i + 1, Len(list))

\* update_env_file(key, new_values): the file as it is afterwards; written
\* is whether the function returns True
update_env_file(env, key, new_values, written) ==
    IF written THEN [env EXCEPT ![key] = new_values] ELSE env

\* a faulty variant: the lists are changed whatever update_env_file returned
IfUpdated_Always(written) == TRUE

\* `if update_env_file(...):`
IfUpdated(written) == written

\* the request r, validated with the answer resp, ends with what the
\* function returned
Returned(r, resp, ok, message, persisted, io) ==
    [request[r] EXCEPT !.pc = "done", !.resp = resp, !.ok = ok, !.message = message,
                       !.persisted = persisted, !.io = @ \o io]

\* the characters of the class [a-zA-Z0-9]
AlnumClass ==
    DOMAIN LowerOf \cup {LowerOf[c] : c \in DOMAIN LowerOf} \cup {Digits[i] : i \in 1..10}

\* re.match(r"^[a-zA-Z0-9]{8,12}$", s); `$` also matches before a newline
\* that ends the string
re_match_id(s) ==
    LET core == IF s # <<>> /\ s[Len(s)] = "\n" THEN SubSeq(s, 1, Len(s) - 1) ELSE s
    IN  Len(core) \in 8..12 /\ \A i \in 1..Len(core) : core[i] \in AlnumClass

\* validate_testflight_id_format(tf_id): (is_valid, message)
validate_testflight_id_format(tf_id) ==
    IF tf_id = <<>> \/ str_strip(tf_id) = <<>>
    THEN [valid |-> FALSE, message |-> <<"T","e","s","t","F","l","i","g","h","t"," ","I","D"," ","c","a","n","n","o","t"," ","b","e"," ","e","m","p","t","y">>]
    ELSE IF ~re_match_id(str_strip(tf_id))
    THEN [valid |-> FALSE,
          message |-> <<"I","n","v","a","l","i","d"," ","T","e","s","t","F","l","i","g","h","t"," ","I","D"," ","f","o","r","m","a","t","."," ","I","D"," ","m","u","s","t"," ","b","e"," ","8","-","1","2"," ","a","l","p","h","a","n","u","m","e","r","i","c"," ","c","h","a","r","a","c","t","e","r","s">>]
    ELSE [valid |-> TRUE, message |-> <<"V","a","l","i","d"," ","f","o","r","m","a","t">>]

\* a faulty variant: any page with a title passes
TitleHasMarker_AnyTitle(page) == page.has_title

\* `title and "TestFlight" in title.text` (a Tag is always truthy)
TitleHasMarker(page) == page.has_title /\ str_contains(<<"T","e","s","t","F","l","i","g","h","t">>, page.title)

\* validate_testflight_id(tf_id) after the format check: (is_valid, message)
\* for what session.get produced
validate_testflight_id(resp) ==
    IF resp.kind # "http"
    THEN [valid |-> FALSE, message |-> <<"E","r","r","o","r"," ","v","a","l","i","d","a","t","i","n","g"," ","I","D",":"," ">> \o resp.msg]
    ELSE IF resp.http_status = 404
    THEN [valid |-> FALSE, message |-> <<"T","e","s","t","F","l","i","g","h","t"," ","I","D"," ","n","o","t"," ","f","o","u","n","d"," ","(","4","0","4",")">>]
    ELSE IF resp.http_status # 200
    THEN [valid |-> FALSE, message |-> <<"H","T","T","P"," ">> \o str_int(resp.http_status) \o <<" ","e","r","r","o","r">>]
    ELSE IF ~TitleHasMarker(resp.page)
    THEN [valid |-> FALSE, message |-> <<"N","o","t"," ","a"," ","v","a","l","i","d"," ","T","e","s","t","F","l","i","g","h","t"," ","p","a","g","e">>]
    ELSE [valid |-> TRUE, message |-> <<"V","a","l","i","d"," ","T","e","s","t","F","l","i","g","h","t"," ","I","D">>]

\* POST /api/testflight-ids (and each id of a batch's "add"): the id is
\* stripped; an empty one is refused, validate_testflight_id refuses one of
\* the wrong format before it awaits anything, else session.get is awaited
AddIdBegin(r, raw_id) ==
    /\ request[r].pc \in {"idle", "done"}
    /\ LET tf_id == str_strip(raw_id)
           format == validate_testflight_id_format(tf_id)
           req == [NoRequest EXCEPT !.op = "add_id", !.arg = tf_id]
       IN  request' = [request EXCEPT ![r] =
              IF tf_id = <<>>
              THEN [req EXCEPT !.pc = "done", !.message = <<"T","e","s","t","F","l","i","g","h","t"," ","I","D"," ","i","s"," ","r","e","q","u","i","r","e","d">>]
              ELSE IF ~format.valid
              THEN [req EXCEPT !.pc = "done", !.message = format.message]
              ELSE [req EXCEPT
                       !.pc = "validating",
                       !.io = WithoutLock(<<"session.get">>),
                       !.rivals = { q \in Requests \ {r} :
                                      /\ request[q].pc = "validating"
                                      /\ request[q].arg = tf_id }]]
    /\ UNCHANGED <<lifeVars, current_apprise_urls, apobj, env_file, api, now, cacheVars,
                   _rate_limiter, direct, engineVars, retry>>

\* validate_testflight_id returns for the answer resp; an invalid id is
\* answered with 400, a valid one goes to add_testflight_id(tf_id), which
\* runs under id_list_lock without an await
AddIdFinish(r, resp, written) ==
    /\ request[r].pc = "validating"
    /\ request[r].op = "add_id"
    /\ LET tf_id == request[r].arg
           new_list == current_id_list \o <<tf_id>>
           live == validate_testflight_id(resp)
       IN  IF ~live.valid
           THEN /\ request' = [request EXCEPT ![r] =
                       Returned(r, resp, FALSE, live.message, FALSE, <<>>)]
                /\ UNCHANGED <<current_id_list, env_file>>
           ELSE IF InList(current_id_list, tf_id)
           THEN /\ request' = [request EXCEPT ![r] =
                       Returned(r, resp, FALSE, <<"T","e","s","t","F","l","i","g","h","t"," ","I","D"," ","a","l","r","e","a","d","y"," ","e","x","i","s","t","s">>, FALSE, <<>>)]
                /\ UNCHANGED <<current_id_list, env_file>>
           ELSE /\ env_file' = update_env_file(env_file, "ID_LIST", new_list, written)
                /\ IF IfUpdated(written)
                   THEN /\ current_id_list' = Append(current_id_list, tf_id)
                        /\ request' = [request EXCEPT ![r] =
                               Returned(r, resp, TRUE, <<"T","e","s","t","F","l","i","g","h","t"," ","I","D"," ","a","d","d","e","d"," ","s","u","c","c","e","s","s","f","u","l","l","y">>, written,
                                        WithLock("id_list_lock", PersistAndNotify(written)))]
                   ELSE /\ request' = [request EXCEPT ![r] =
                               Returned(r, resp, FALSE, <<"F","a","i","l","e","d"," ","t","o"," ","u","p","d","a","t","e"," ",".","e","n","v"," ","f","i","l","e">>, written,
                                        WithLock("id_list_lock", PersistAndNotify(written)))]
                        /\ UNCHANGED current_id_list
    /\ UNCHANGED <<lifeVars, current_apprise_urls, apobj, api, now, cacheVars,
                   _rate_limiter, direct, _previous_status, _request_failures, _metrics,
                   watch, task, retry>>

\* DELETE /api/testflight-ids/{tf_id}: remove_testflight_id(tf_id)
RemoveId(r, tf_id, written) ==
    /\ request[r].pc \in {"idle", "done"}
    /\ LET new_list == RemoveAll(current_id_list, tf_id)
           req == [NoRequest EXCEPT !.op = "remove_id", !.arg = tf_id]
       IN  IF ~InList(current_id_list, tf_id)
           THEN /\ request' = [request EXCEPT ![r] =
                       [req EXCEPT !.pc = "done", !.message = <<"T","e","s","t","F","l","i","g","h","t"," ","I","D"," ","n","o","t"," ","f","o","u","n","d">>]]
                /\ UNCHANGED <<current_id_list, env_file>>
           ELSE /\ env_file' = update_env_file(env_file, "ID_LIST", new_list, written)
                /\ IF IfUpdated(written)
                   THEN /\ current_id_list' = RemoveFirst(current_id_list, tf_id)
                        /\ request' = [request EXCEPT ![r] =
                               [req EXCEPT !.pc = "done", !.ok = TRUE, !.persisted = written,
                                           !.io = WithLock("id_list_lock", PersistAndNotify(written)),
                                           !.message = <<"T","e","s","t","F","l","i","g","h","t"," ","I","D"," ","r","e","m","o","v","e","d"," ","s","u","c","c","e","s","s","f","u","l","l","y">>]]
                   ELSE /\ request' = [request EXCEPT ![r] =
                               [req EXCEPT !.pc = "done", !.persisted = written,
                                           !.io = WithLock("id_list_lock", PersistAndNotify(written)),
                                           !.message = <<"F","a","i","l","e","d"," ","t","o"," ","u","p","d","a","t","e"," ",".","e","n","v"," ","f","i","l","e">>]]
                        /\ UNCHANGED current_id_list
    /\ UNCHANGED <<lifeVars, current_apprise_urls, apobj, api, now, cacheVars,
                   _rate_limiter, direct, _previous_status, _request_failures, _metrics,
                   watch, task, retry>>

\* POST /api/apprise-urls: add_apprise_url(url); is_valid is what
\* validate_apprise_url says of the URL
AddUrl(r, url, is_valid, written) ==
    /\ request[r].pc \in {"idle", "done"}
    /\ LET new_list == current_apprise_urls \o <<url>>
           req == [NoRequest EXCEPT !.op = "add_url", !.arg = url]
       IN  IF InList(current_apprise_urls, url)
           THEN /\ request' = [request EXCEPT ![r] =
                       [req EXCEPT !.pc = "done", !.message = <<"A","p","p","r","i","s","e"," ","U","R","L"," ","a","l","r","e","a","d","y"," ","e","x","i","s","t","s">>]]
                /\ UNCHANGED <<current_apprise_urls, apobj, env_file>>
           ELSE IF ~is_valid
           THEN /\ request' = [request EXCEPT ![r] =
                       [req EXCEPT !.pc = "done", !.message = <<"I","n","v","a","l","i","d"," ","U","R","L"," ","f","o","r","m","a","t">>]]
                /\ UNCHANGED <<current_apprise_urls, apobj, env_file>>
           ELSE /\ env_file' = update_env_file(env_file, "APPRISE_URL", new_list, written)
                /\ IF IfUpdated(written)
                   THEN /\ current_apprise_urls' = Append(current_apprise_urls, url)
                        /\ apobj' = Append(apobj, url)
                        /\ request' = [request EXCEPT ![r] =
                               [req EXCEPT !.pc = "done", !.ok = TRUE, !.persisted = written,
                                           !.io = WithLock("apprise_urls_lock", PersistAndNotify(written)),
                                           !.message = <<"A","p","p","r","i","s","e"," ","U","R","L"," ","a","d","d","e","d"," ","s","u","c","c","e","s","s","f","u","l","l","y">>]]
                   ELSE /\ request' = [request EXCEPT ![r] =
                               [req EXCEPT !.pc = "done", !.persisted = written,
                                           !.io = WithLock("apprise_urls_lock", PersistAndNotify(written)),
                                           !.message = <<"F","a","i","l","e","d"," ","t","o"," ","u","p","d","a","t","e"," ",".","e","n","v"," ","f","i","l","e">>]]
                        /\ UNCHANGED <<current_apprise_urls, apobj>>
    /\ UNCHANGED <<lifeVars, api, now, cacheVars, _rate_limiter, direct, engineVars, retry>>

\* DELETE /api/apprise-urls/{url}: remove_apprise_url(url); the live Apprise
\* object is cleared and loaded again with the remaining URLs
RemoveUrl(r, url, written) ==
    /\ request[r].pc \in {"idle", "done"}
    /\ LET new_list == RemoveAll(current_apprise_urls, url)
           req == [NoRequest EXCEPT !.op = "remove_url", !.arg = url]
       IN  IF ~InList(current_apprise_urls, url)
           THEN /\ request' = [request EXCEPT ![r] =
                       [req EXCEPT !.pc = "done", !.message = <<"A","p","p","r","i","s","e"," ","U","R","L"," ","n","o","t"," ","f","o","u","n","d">>]]
                /\ UNCHANGED <<current_apprise_urls, apobj, env_file>>
           ELSE /\ env_file' = update_env_file(env_file, "APPRISE_URL", new_list, written)
                /\ IF IfUpdated(written)
                   THEN /\ current_apprise_urls' = RemoveFirst(current_apprise_urls, url)
                        /\ apobj' = RemoveFirst(current_apprise_urls, url)
                        /\ request' = [request EXCEPT ![r] =
                               [req EXCEPT !.pc = "done", !.ok = TRUE, !.persisted = written,
                                           !.io = WithLock("apprise_urls_lock", PersistAndNotify(written)),
                                           !.message = <<"A","p","p","r","i","s","e"," ","U","R","L"," ","r","e","m","o","v","e","d"," ","s","u","c","c","e","s","s","f","u","l","l","y">>]]
                   ELSE /\ request' = [request EXCEPT ![r] =
                               [req EXCEPT !.pc = "done", !.persisted = written,
                                           !.io = WithLock("apprise_urls_lock", PersistAndNotify(written)),
                                           !.message = <<"F","a","i","l","e","d"," ","t","o"," ","u","p","d","a","t","e"," ",".","e","n","v"," ","f","i","l","e">>]]
                        /\ UNCHANGED <<current_apprise_urls, apobj>>
    /\ UNCHANGED <<lifeVars, api, now, cacheVars, _rate_limiter, direct, engineVars, retry>>

\* ID_LIST as the environment may give it
InitialIdLists ==
    { << <<"a","b","c","1","2","3","4","5">> >>, << <<"a","b","c","1","2","3","4","5">>, <<"x","y","z","9","8","7","6","5">> >>, << <<"a","b","c","1","2","3","4","5">>, <<"a","b","c","1","2","3","4","5">> >> }

\* the sweep's state when the module is loaded with one of these id lists
InitEngine(id_lists) ==
    /\ current_id_list \in id_lists
    /\ _previous_status = << >>
    /\ _request_failures = << >>
    /\ _metrics = MetricsCollector
    /\ watch = [pc |-> "settle", wake |-> SettleDelay, current_ids |-> <<>>, ended_at |-> 0,
               session |-> NoSession]
    /\ task = [t \in Slots |-> NoTask]
    /\ shutdown_event = FALSE
    /\ _http_session = NoSession
    /\ sessions = << >>
    /\ main = [pc |-> "wait"]
    /\ current_apprise_urls = APPRISE_URLS
    /\ apobj = APPRISE_URLS
    /\ env_file = [ID_LIST |-> current_id_list, APPRISE_URL |-> APPRISE_URLS]
    /\ request = [r \in Requests |-> NoRequest]

(***************************************************************************)
(* utils/testflight.py: check_testflight_status_with_retry(session, url,   *)
(* max_retries, base_delay, timeout, use_cache, use_rate_limit).  Delays   *)
(* are in milliseconds (base_delay is a float number of seconds).          *)
(***************************************************************************)
\* the caller before its call; last_error is None, which an f-string renders "None"
IdleRetry ==
    [pc |-> "idle", url |-> <<>>, max_retries |-> 0, base_delay_ms |-> 0,
     use_cache |-> FALSE, use_rate_limit |-> FALSE,
     attempt |-> 0, last_error |-> <<"N","o","n","e">>, last_result |-> NoResult,
     resp |-> NoResponse, result |-> NoResult,
     attempts |-> 0, errors |-> 0, sleeps |-> 0,
     delay_ms |-> 0, jitter_ms |-> 0, wake_ms |-> 0]

\* a faulty variant: one attempt too many
LoopContinues_OneMore(attempt, max_retries) == attempt <= max_retries

\* `for attempt in range(max_retries)`
LoopContinues(attempt, max_retries) == attempt < max_retries

\* a faulty variant: a non-Error result does not end the loop
IsSuccess_Never(result) == FALSE

\* `if result["status"] != TestFlightStatus.ERROR: return result`
IsSuccess(result) == result.status # ERROR

\* `if attempt < max_retries - 1`: a sleep follows this attempt
SleepsAfter(attempt, max_retries) == attempt < max_retries - 1

\* a faulty variant: a delay that grows linearly
BackoffDelay_Linear(base_delay_ms, attempt) == base_delay_ms * (attempt + 1)

\* delay = base_delay * (2**attempt)
BackoffDelay(base_delay_ms, attempt) == base_delay_ms * (2 ^ attempt)

\* random.uniform(0, delay * 0.1): the ends and the middle of the interval
Jitters(delay_ms) == {0, delay_ms \div 20, delay_ms \div 10}

\* f"Failed after {max_retries} retries: {last_error}"
FailedAfter(max_retries, last_error) ==
    <<"F","a","i","l","e","d"," ","a","f","t","e","r"," ">> \o str_int(max_retries) \o <<" ","r","e","t","r","i","e","s",":"," ">> \o last_error

\* the code after the loop: the last Error result with its error annotated,
\* or a fresh Error dict when no attempt left a result
AllRetriesFailed(rec) ==
    IF rec.last_result.status # None
    THEN SetKey(rec.last_result, "error", FailedAfter(rec.max_retries, rec.last_error))
    ELSE [url |-> rec.url, status |-> ERROR, status_text |-> <<"E","r","r","o","r">>,
          cached |-> FALSE, rate_limited |-> FALSE,
          keys |-> {"error"}, error |-> FailedAfter(rec.max_retries, rec.last_error),
          app_name |-> <<>>, raw_text |-> <<>>]

\* the result of one attempt is in: return it, or note the error and sleep,
\* go on to the next attempt, or give up.  The next attempt's start, when it
\* follows at once, is NextAttempt's work.
AfterAttempt(rec, result, jitter_ms) ==
    IF IsSuccess(result)
    THEN [rec EXCEPT !.pc = "returned", !.result = result]
    ELSE LET noted == [rec EXCEPT !.last_error = GetError(result), !.last_result = result,
                                  !.errors = @ + 1]
         IN  IF SleepsAfter(rec.attempt, rec.max_retries)
             THEN [noted EXCEPT !.pc = "sleep", !.sleeps = @ + 1,
                                !.delay_ms = BackoffDelay(rec.base_delay_ms, rec.attempt),
                                !.jitter_ms = jitter_ms,
                                !.wake_ms = (now * 1000)
                                            + BackoffDelay(rec.base_delay_ms, rec.attempt)
                                            + jitter_ms]
             ELSE [noted EXCEPT !.pc = "loop", !.attempt = @ + 1]

\* the head of the loop with rec.attempt the next value of the loop variable:
\* either the loop is over and the call returns, or check_testflight_status
\* is called and runs to its cache hit or to session.get
NextAttempt(rec) ==
    IF ~LoopContinues(rec.attempt, rec.max_retries)
    THEN /\ retry' = [rec EXCEPT !.pc = "returned", !.result = AllRetriesFailed(rec)]
         /\ UNCHANGED <<_status_cache, _rate_limiter>>
    ELSE IF rec.use_cache /\ get_cached_status(rec.url) # <<>>
    THEN /\ _status_cache' = CacheAfterHit(rec.url)
         /\ retry' = AfterAttempt([rec EXCEPT !.attempts = @ + 1, !.resp = NoResponse],
                                  HitResult(rec.url), 0)
         /\ UNCHANGED _rate_limiter
    ELSE /\ _status_cache' = IF rec.use_cache THEN CacheAfterGet(rec.url) ELSE _status_cache
         /\ rec.use_rate_limit => CanAcquire(_rate_limiter)
         /\ _rate_limiter' = IF rec.use_rate_limit THEN Acquire(_rate_limiter) ELSE _rate_limiter
         /\ retry' = [rec EXCEPT !.pc = "http", !.attempts = @ + 1]

\* the call
RetryCall(url, max_retries, base_delay_ms, use_cache, use_rate_limit) ==
    /\ retry.pc = "idle"
    /\ NextAttempt([retry EXCEPT !.url = url, !.max_retries = max_retries,
                                 !.base_delay_ms = base_delay_ms,
                                 !.use_cache = use_cache, !.use_rate_limit = use_rate_limit])
    /\ UNCHANGED <<lifeVars, adminVars, api, now, _cache_enabled, _cache_ttl_seconds, direct, engineVars>>

\* the response of an attempt arrives
RetryRespond(resp) ==
    /\ retry.pc = "http"
    /\ LET result == FetchResult(retry.url, retry.use_rate_limit, resp)
           after(jitter_ms) == AfterAttempt([retry EXCEPT !.resp = resp], result, jitter_ms)
       IN  /\ _status_cache' =
                 IF CachesResult(resp)
                 THEN cache_status(_status_cache, retry.url, result)
                 ELSE _status_cache
           /\ IF ~IsSuccess(result) /\ SleepsAfter(retry.attempt, retry.max_retries)
              THEN \E jitter_ms \in Jitters(BackoffDelay(retry.base_delay_ms, retry.attempt)) :
                      retry' = after(jitter_ms)
              ELSE retry' = after(0)
    /\ UNCHANGED <<lifeVars, adminVars, api, now, _cache_enabled, _cache_ttl_seconds, _rate_limiter, direct, engineVars>>

\* the loop goes round after an attempt that is followed by no sleep
RetryLoop ==
    /\ retry.pc = "loop"
    /\ NextAttempt(retry)
    /\ UNCHANGED <<lifeVars, adminVars, api, now, _cache_enabled, _cache_ttl_seconds, direct, engineVars>>

\* asyncio.sleep(total_delay) is over: the loop goes round
RetryWake ==
    /\ retry.pc = "sleep"
    /\ now * 1000 >= retry.wake_ms
    /\ NextAttempt([retry EXCEPT !.attempt = @ + 1])
    /\ UNCHANGED <<lifeVars, adminVars, api, now, _cache_enabled, _cache_ttl_seconds, direct, engineVars>>

\* the answers an attempt may get
RetryResponses ==
    { HttpResponse(200, OpenPage), HttpResponse(500, OpenPage),
      RaisedResponse("timeout", <<>>),
      RaisedResponse("client_error", <<"C","o","n","n","e","c","t","i","o","n"," ","r","e","s","e","t">>),
      RaisedResponse("exception", <<>>) }

\* base_delay: 0.01 s as the unit test passes it, and the default 1.0 s
BaseDelays == {10, 1000}

\* no call made yet
NoCall == [op |-> "none"]

Init ==
    /\ now = 0
    /\ _status_cache = << >>
    /\ _cache_enabled = TRUE
    /\ _cache_ttl_seconds = MainCacheTtl
    /\ _rate_limiter = RateLimiter(DefaultMaxRequests, DefaultTimeWindow)
    /\ direct = IdleCall
    /\ retry = IdleRetry
    /\ api = NoCall
    /\ InitEngine(InitialIdLists)

Next ==
    \/ StartSweep
    \/ \E t \in Slots : TaskBegin(t)
    \/ \E t \in Slots, resp \in SweepResponses : TaskRespond(t, resp)
    \/ \E t \in Slots : TaskAppName(t)
    \/ \E t \in Slots : TaskNotify(t, "sent")
    \/ \E t \in Slots : TaskRaise(t)
    \/ EndSweep
    \/ Tick

Spec == Init /\ [][Next]_vars

\* a direct call, with the cache enabled or not
InitFetch ==
    /\ now = 0
    /\ _status_cache = << >>
    /\ _cache_enabled \in BOOLEAN
    /\ _cache_ttl_seconds = MainCacheTtl
    /\ _rate_limiter = RateLimiter(DefaultMaxRequests, DefaultTimeWindow)
    /\ direct = IdleCall
    /\ retry = IdleRetry
    /\ api = NoCall
    /\ InitEngine({<< <<"a","b","c","1","2","3","4","5">> >>})

NextFetch ==
    \/ \E use_cache \in BOOLEAN, use_rate_limit \in BOOLEAN :
          DirectCall(DirectUrl, use_cache, use_rate_limit)
    \/ \E resp \in FetchResponses : DirectRespond(resp)

SpecFetch == InitFetch /\ [][NextFetch]_vars

\* a call of check_testflight_status_with_retry next to a direct call of
\* check_testflight_status for the same URL
InitRetry ==
    /\ now = 0
    /\ _status_cache = << >>
    /\ _cache_enabled = TRUE
    /\ _cache_ttl_seconds = MainCacheTtl
    /\ _rate_limiter = RateLimiter(DefaultMaxRequests, DefaultTimeWindow)
    /\ direct = IdleCall
    /\ retry = IdleRetry
    /\ api = NoCall
    /\ InitEngine({<< <<"a","b","c","1","2","3","4","5">> >>})

NextRetry ==
    \/ \E max_retries \in 0..MaxRetriesBound, base_delay_ms \in BaseDelays, flag \in BOOLEAN :
          RetryCall(DirectUrl, max_retries, base_delay_ms, flag, flag)
    \/ \E resp \in RetryResponses : RetryRespond(resp)
    \/ RetryLoop
    \/ RetryWake
    \/ DirectCall(DirectUrl, TRUE, TRUE)
    \/ \E resp \in {HttpResponse(200, OpenPage), RaisedResponse("timeout", <<>>)} :
          DirectRespond(resp)
    \/ Tick

SpecRetry == InitRetry /\ [][NextRetry]_vars

(***************************************************************************)
(* main.py: the circuit breaker, called key by key.  Next to the call and  *)
(* its return value (for recordSuccess: was_open, whether the circuit was  *)
(* open when it was called), api keeps for each key the recordFailure since *)
(* the last recordSuccess (streak), those of them that no gap of the       *)
(* timeout or more separates from the latest one (counted) and the time    *)
(* of the latest one (last_time).                                          *)
(***************************************************************************)
\* A key gets at most MaxFailures failures in a row.
MaxFailures == 6

\* the keys: the URLs of the monitored ids
BreakerUrls == { format_link(TESTFLIGHT_URL, tf_id) : tf_id \in TfIds }

NoBreakerCall ==
    [op |-> "none", url |-> <<>>, ret |-> FALSE, was_open |-> FALSE,
     streak |-> [u \in BreakerUrls |-> 0],
     counted |-> [u \in BreakerUrls |-> 0],
     last_time |-> [u \in BreakerUrls |-> 0]]

\* record_request_failure(url)
BreakerFailure(url) ==
    /\ api.streak[url] < MaxFailures
    /\ _request_failures' = record_request_failure(_request_failures, url)
    /\ api' = [api EXCEPT !.op = "record_failure", !.url = url, !.ret = FALSE,
                          !.streak[url] = @ + 1,
                          !.counted[url] =
                              IF @ > 0 /\ now - api.last_time[url] >= _circuit_breaker_timeout
                              THEN 1 ELSE @ + 1,
                          !.last_time[url] = now]
    /\ UNCHANGED <<lifeVars, adminVars, now, cacheVars, _rate_limiter, direct, current_id_list,
                   _previous_status, _metrics, watch, task, retry>>

\* record_request_success(url)
BreakerSuccess(url) ==
    /\ _request_failures' = record_request_success(_request_failures, url)
    /\ api' = [api EXCEPT !.op = "record_success", !.url = url, !.ret = FALSE,
                          !.was_open = is_circuit_breaker_open(_request_failures, url),
                          !.streak[url] = 0, !.counted[url] = 0, !.last_time[url] = 0]
    /\ UNCHANGED <<lifeVars, adminVars, now, cacheVars, _rate_limiter, direct, current_id_list,
                   _previous_status, _metrics, watch, task, retry>>

\* is_circuit_breaker_open(url)
BreakerIsOpen(url) ==
    /\ _request_failures' = FailuresAfterIsOpen(_request_failures, url)
    /\ api' = [api EXCEPT !.op = "is_open", !.url = url,
                          !.ret = is_circuit_breaker_open(_request_failures, url)]
    /\ UNCHANGED <<lifeVars, adminVars, now, cacheVars, _rate_limiter, direct, current_id_list,
                   _previous_status, _metrics, watch, task, retry>>

InitBreaker ==
    /\ now = 0
    /\ _status_cache = << >>
    /\ _cache_enabled = TRUE
    /\ _cache_ttl_seconds = MainCacheTtl
    /\ _rate_limiter = RateLimiter(DefaultMaxRequests, DefaultTimeWindow)
    /\ direct = IdleCall
    /\ retry = IdleRetry
    /\ api = NoBreakerCall
    /\ InitEngine({<< <<"a","b","c","1","2","3","4","5">> >>})

NextBreaker ==
    \/ \E url \in BreakerUrls : BreakerFailure(url)
    \/ \E url \in BreakerUrls : BreakerSuccess(url)
    \/ \E url \in BreakerUrls : BreakerIsOpen(url)
    \/ Tick

SpecBreaker == InitBreaker /\ [][NextBreaker]_vars

(***************************************************************************)
(* utils/testflight.py: the result cache, called operation by operation.   *)
(* Next to the call and its return value, api keeps what a user of the     *)
(* cache knows without looking into it: whether enable was ever called,    *)
(* for each URL the result and time of the last put made while the cache   *)
(* was enabled and not followed by a clear or disable (put), and whether   *)
(* the age of that put has reached the TTL at some moment since (lapsed).  *)
(* at is the time of the call.                                             *)
(***************************************************************************)
\* _cache_ttl_seconds = 300 at import
ImportCacheTtl == 300

\* the ttl_seconds enable_status_cache is called with: one tick of the
\* clock, and the 300 s main.py passes
CacheTtls == {TickStep, MainCacheTtl}

CacheUrls == { DirectUrl, format_link(TESTFLIGHT_URL, <<"a","b","c","1","2","3","4","5">>) }

\* the results put into the cache
CacheResults(url) ==
    { FetchResult(url, TRUE, HttpResponse(200, OpenPage)),
      FetchResult(url, TRUE, HttpResponse(200, FullPage)) }

NoCacheCall ==
    [op |-> "none", url |-> <<>>, ret |-> <<>>, ttl |-> 0, at |-> 0, enabled_once |-> FALSE,
     put |-> [u \in CacheUrls |-> <<>>],
     lapsed |-> [u \in CacheUrls |-> FALSE]]

\* api with the puts marked whose age has reached the TTL `ttl` by now
Lapse(a, ttl) ==
    [a EXCEPT !.lapsed = [u \in CacheUrls |->
                             \/ a.lapsed[u]
                             \/ a.put[u] # <<>> /\ now - a.put[u][2] >= ttl]]

\* enable_status_cache(ttl_seconds)
CacheEnable(ttl_seconds) ==
    /\ _cache_enabled' = TRUE
    /\ _cache_ttl_seconds' = ttl_seconds
    /\ api' = [Lapse(Lapse(api, _cache_ttl_seconds), ttl_seconds) EXCEPT
                  !.op = "enable", !.at = now, !.url = <<>>, !.ret = <<>>, !.ttl = ttl_seconds,
                  !.enabled_once = TRUE]
    /\ UNCHANGED <<lifeVars, adminVars, now, _status_cache, _rate_limiter, direct, engineVars, retry>>

\* disable_status_cache()
CacheDisable ==
    /\ _cache_enabled' = FALSE
    /\ _status_cache' = << >>
    /\ api' = [api EXCEPT !.op = "disable", !.at = now, !.url = <<>>, !.ret = <<>>, !.ttl = 0,
                          !.put = [u \in CacheUrls |-> <<>>],
                          !.lapsed = [u \in CacheUrls |-> FALSE]]
    /\ UNCHANGED <<lifeVars, adminVars, now, _cache_ttl_seconds, _rate_limiter, direct, engineVars, retry>>

\* clear_status_cache()
CacheClear ==
    /\ _status_cache' = << >>
    /\ api' = [api EXCEPT !.op = "clear", !.at = now, !.url = <<>>, !.ret = <<>>, !.ttl = 0,
                          !.put = [u \in CacheUrls |-> <<>>],
                          !.lapsed = [u \in CacheUrls |-> FALSE]]
    /\ UNCHANGED <<lifeVars, adminVars, now, _cache_enabled, _cache_ttl_seconds, _rate_limiter, direct,
                   engineVars, retry>>

\* get_cached_status(url)
CacheGet(url) ==
    /\ _status_cache' = CacheAfterGet(url)
    /\ api' = [Lapse(api, _cache_ttl_seconds) EXCEPT
                  !.op = "get", !.at = now, !.url = url, !.ret = get_cached_status(url), !.ttl = 0]
    /\ UNCHANGED <<lifeVars, adminVars, now, _cache_enabled, _cache_ttl_seconds, _rate_limiter, direct,
                   engineVars, retry>>

\* cache_status(url, result)
CachePut(url, result) ==
    /\ _status_cache' = cache_status(_status_cache, url, result)
    /\ api' = [Lapse(api, _cache_ttl_seconds) EXCEPT
                  !.op = "put", !.at = now, !.url = url, !.ret = <<result>>, !.ttl = 0,
                  !.put[url] = IF _cache_enabled THEN <<result, now>> ELSE @,
                  !.lapsed[url] = IF _cache_enabled THEN FALSE ELSE @]
    /\ UNCHANGED <<lifeVars, adminVars, now, _cache_enabled, _cache_ttl_seconds, _rate_limiter, direct,
                   engineVars, retry>>

\* utils/testflight.py as imported: the cache is empty and disabled
InitCache ==
    /\ now = 0
    /\ _status_cache = << >>
    /\ _cache_enabled = FALSE
    /\ _cache_ttl_seconds = ImportCacheTtl
    /\ _rate_limiter = RateLimiter(DefaultMaxRequests, DefaultTimeWindow)
    /\ direct = IdleCall
    /\ retry = IdleRetry
    /\ api = NoCacheCall
    /\ InitEngine({<< <<"a","b","c","1","2","3","4","5">> >>})

NextCache ==
    \/ \E ttl_seconds \in CacheTtls : CacheEnable(ttl_seconds)
    \/ CacheDisable
    \/ CacheClear
    \/ \E url \in CacheUrls : CacheGet(url)
    \/ \E url \in CacheUrls : \E result \in CacheResults(url) : CachePut(url, result)
    \/ Tick

SpecCache == InitCache /\ [][NextCache]_vars

(***************************************************************************)
(* utils/testflight.py: RateLimiter.acquire with its waiting path, called  *)
(* by concurrent callers on a small limiter.  api keeps for each caller    *)
(* its position, the number of its call in the order the calls got the     *)
(* lock (index), the time it got the lock (entered_at), the wait_time it   *)
(* slept (delay) and the time its sleep ends (wake); api.entered lists the *)
(* times at which the calls got the lock; api.stats is what the last       *)
(* get_stats() returned, at time api.stats_at.                             *)
(***************************************************************************)
\* The limiters of the model allow up to MaxLimiterRequests requests per window.
MaxLimiterRequests == 2

\* one caller more than the largest limit
LimiterCallers == 1..(MaxLimiterRequests + 1)

\* time_window: one tick of the clock, or two
LimiterWindows == {TickStep, 2 * TickStep}

NoLimiterCall ==
    [op |-> "none",
     entered |-> <<>>,
     stats |-> None,
     stats_at |-> 0,
     caller |-> [c \in LimiterCallers |->
                    [pc |-> "idle", index |-> 0, entered_at |-> 0, delay |-> 0, wake |-> 0]]]

\* a faulty variant: the wait is counted from the newest request
WaitTime_FromNewest(requests, time_window) ==
    (requests[Len(requests)] + time_window) - now

\* wait_time: the time until the oldest request leaves the window
WaitTime(requests, time_window) ==
    (Head(requests) + time_window) - now

\* the lock is free: the caller enters acquire(), prunes the window, and
\* either records its request and returns, or goes to sleep holding the lock
LimiterEnter(c) ==
    /\ api.caller[c].pc = "idle"
    /\ ~_rate_limiter.lock
    /\ LET rl == _rate_limiter
           pruned == PruneOld(rl.requests, now, rl.time_window)
           at_limit == Len(pruned) >= rl.max_requests
           wait_time == IF at_limit THEN WaitTime(pruned, rl.time_window) ELSE 0
           entry == [api.caller[c] EXCEPT !.index = Len(api.entered) + 1,
                                          !.entered_at = now]
       IN  IF at_limit /\ wait_time > 0
           THEN /\ _rate_limiter' = [rl EXCEPT !.requests = pruned, !.lock = TRUE]
                /\ api' = [api EXCEPT !.op = "acquire",
                                      !.entered = Append(@, now),
                                      !.caller[c] = [entry EXCEPT !.pc = "sleeping",
                                                                  !.delay = wait_time,
                                                                  !.wake = now + wait_time]]
           ELSE /\ _rate_limiter' = [rl EXCEPT !.requests = Append(pruned, now)]
                /\ api' = [api EXCEPT !.op = "acquire",
                                      !.entered = Append(@, now),
                                      !.caller[c] = [entry EXCEPT !.pc = "done"]]
    /\ UNCHANGED <<lifeVars, adminVars, now, cacheVars, direct, engineVars, retry>>

\* asyncio.sleep(wait_time) is over: prune again, record the request,
\* release the lock and return
LimiterWake(c) ==
    /\ api.caller[c].pc = "sleeping"
    /\ now >= api.caller[c].wake
    /\ _rate_limiter' =
          [_rate_limiter EXCEPT
              !.requests = Append(PruneOld(@, now, _rate_limiter.time_window), now),
              !.lock = FALSE]
    /\ api' = [api EXCEPT !.op = "acquired", !.caller[c].pc = "done"]
    /\ UNCHANGED <<lifeVars, adminVars, now, cacheVars, direct, engineVars, retry>>

\* get_stats() is called; api keeps what it returned and when
LimiterStats ==
    /\ api' = [api EXCEPT !.op = "get_stats",
                          !.stats = get_stats(_rate_limiter),
                          !.stats_at = now]
    /\ UNCHANGED <<lifeVars, adminVars, now, cacheVars, _rate_limiter, direct, engineVars, retry>>

\* a limiter just constructed, its window empty
InitLimiter ==
    /\ now = 0
    /\ _status_cache = << >>
    /\ _cache_enabled = FALSE
    /\ _cache_ttl_seconds = ImportCacheTtl
    /\ _rate_limiter \in { RateLimiter(m, w) : m \in 1..MaxLimiterRequests, w \in LimiterWindows }
    /\ direct = IdleCall
    /\ retry = IdleRetry
    /\ api = NoLimiterCall
    /\ InitEngine({<< <<"a","b","c","1","2","3","4","5">> >>})

NextLimiter ==
    \/ \E c \in LimiterCallers : LimiterEnter(c)
    \/ \E c \in LimiterCallers : LimiterWake(c)
    \/ LimiterStats
    \/ Tick

SpecLimiter == InitLimiter /\ [][NextLimiter]_vars

(***************************************************************************)
(* main.py: the scheduler with its shutdown, on a finer clock.             *)
(***************************************************************************)
\* The scheduler's clock advances by SchedStep seconds and stops at SchedMaxTime.
SchedStep == 5
SchedMaxTime == 20

\* time passes
SchedTick ==
    /\ now + SchedStep <= SchedMaxTime
    /\ now' = now + SchedStep
    /\ UNCHANGED <<lifeVars, adminVars, api, cacheVars, _rate_limiter, direct, engineVars, retry>>

\* the answers a fetch may get
SchedResponses ==
    { HttpResponse(200, OpenPage), HttpResponse(200, FullPage),
      RaisedResponse("timeout", <<>>) }

\* two targets, the cache enabled as main.py enables it
InitShutdown ==
    /\ now = 0
    /\ _status_cache = << >>
    /\ _cache_enabled = TRUE
    /\ _cache_ttl_seconds = MainCacheTtl
    /\ _rate_limiter = RateLimiter(DefaultMaxRequests, DefaultTimeWindow)
    /\ direct = IdleCall
    /\ retry = IdleRetry
    /\ api = NoCall
    /\ InitEngine({<< <<"a","b","c","1","2","3","4","5">>, <<"x","y","z","9","8","7","6","5">> >>})

NextShutdown ==
    \/ StartSweep
    \/ \E t \in Slots : TaskBegin(t)
    \/ \E t \in Slots, resp \in SchedResponses : TaskRespond(t, resp)
    \/ \E t \in Slots : TaskAppName(t)
    \/ \E t \in Slots : TaskNotify(t, "sent")
    \/ \E t \in Slots : TaskRaise(t)
    \/ EndSweep
    \/ Shutdown
    \/ WatchExit
    \/ MainCancel
    \/ \E t \in Slots : TaskCancelled(t)
    \/ WatchCancelled
    \/ MainCleanup
    \/ MainExit
    \/ SchedTick

SpecShutdown == InitShutdown /\ [][NextShutdown]_vars

\* the event loop runs every callback that is ready: a step of async_main,
\* of the scheduler or of a task that can be taken is taken
FairShutdown ==
    /\ WF_vars(MainCancel)
    /\ WF_vars(MainCleanup)
    /\ WF_vars(MainExit)
    /\ WF_vars(WatchCancelled)
    /\ \A t \in Slots : WF_vars(TaskCancelled(t))

SpecShutdownFair == SpecShutdown /\ FairShutdown

(***************************************************************************)
(* main.py: the dashboard's requests on the target list and on the         *)
(* notification URLs, two requests at a time.                              *)
(***************************************************************************)
\* what the validation of an id may be answered
AdminResponses == { HttpResponse(200, OpenPage), HttpResponse(404, OpenPage) }

\* ID_LIST as the environment may give it: one id, or the same id twice
AdminIdLists == { << <<"a","b","c","1","2","3","4","5">> >>, << <<"a","b","c","1","2","3","4","5">>, <<"a","b","c","1","2","3","4","5">> >> }

InitAdmin ==
    /\ now = 0
    /\ _status_cache = << >>
    /\ _cache_enabled = TRUE
    /\ _cache_ttl_seconds = MainCacheTtl
    /\ _rate_limiter = RateLimiter(DefaultMaxRequests, DefaultTimeWindow)
    /\ direct = IdleCall
    /\ retry = IdleRetry
    /\ api = NoCall
    /\ InitEngine(AdminIdLists)

NextAdmin ==
    \/ \E r \in Requests, tf_id \in TfIds : AddIdBegin(r, tf_id)
    \/ \E r \in Requests, resp \in AdminResponses, written \in BOOLEAN :
          AddIdFinish(r, resp, written)
    \/ \E r \in Requests, tf_id \in TfIds, written \in BOOLEAN : RemoveId(r, tf_id, written)
    \/ \E r \in Requests, url \in AppriseUrls, is_valid \in BOOLEAN, written \in BOOLEAN :
          AddUrl(r, url, is_valid, written)
    \/ \E r \in Requests, url \in AppriseUrls, written \in BOOLEAN : RemoveUrl(r, url, written)

SpecAdmin == InitAdmin /\ [][NextAdmin]_vars

(***************************************************************************)
(* main.py: sweeps over a target list that one dashboard request at a time *)
(* changes.                                                                *)
(***************************************************************************)
\* the answers a fetch may get
TargetResponses == { HttpResponse(200, OpenPage), HttpResponse(200, FullPage) }

\* the id the dashboard removes and adds again
TargetIds == { <<"a","b","c","1","2","3","4","5">> }

InitTargets ==
    /\ now = 0
    /\ _status_cache = << >>
    /\ _cache_enabled = TRUE
    /\ _cache_ttl_seconds = MainCacheTtl
    /\ _rate_limiter = RateLimiter(DefaultMaxRequests, DefaultTimeWindow)
    /\ direct = IdleCall
    /\ retry = IdleRetry
    /\ api = NoCall
    /\ InitEngine({<< <<"a","b","c","1","2","3","4","5">> >>})

NextTargets ==
    \/ StartSweep
    \/ \E t \in Slots : TaskBegin(t)
    \/ \E t \in Slots, resp \in TargetResponses : TaskRespond(t, resp)
    \/ \E t \in Slots : TaskAppName(t)
    \/ \E t \in Slots : TaskNotify(t, "sent")
    \/ EndSweep
    \/ \E tf_id \in TargetIds : AddIdBegin("r1", tf_id)
    \/ \E resp \in AdminResponses, written \in BOOLEAN : AddIdFinish("r1", resp, written)
    \/ \E tf_id \in TargetIds, written \in BOOLEAN : RemoveId("r1", tf_id, written)
    \/ Tick

SpecTargets == InitTargets /\ [][NextTargets]_vars

(***************************************************************************)
(* main.py: one target, swept every SequenceStep seconds, so that every    *)
(* sweep fetches the page anew; the sweeps' log is kept.                   *)
(***************************************************************************)
\* The clock advances by SequenceStep seconds, SequenceSweeps times.
SequenceStep == 300
SequenceSweeps == 3

\* time passes
SequenceTick ==
    /\ now + SequenceStep <= SequenceStep * SequenceSweeps
    /\ now' = now + SequenceStep
    /\ UNCHANGED <<lifeVars, adminVars, api, cacheVars, _rate_limiter, direct, engineVars, retry>>

InitSequence ==
    /\ now = 0
    /\ _status_cache = << >>
    /\ _cache_enabled = TRUE
    /\ _cache_ttl_seconds = MainCacheTtl
    /\ _rate_limiter = RateLimiter(DefaultMaxRequests, DefaultTimeWindow)
    /\ direct = IdleCall
    /\ retry = IdleRetry
    /\ api = NoLog
    /\ InitEngine({<< <<"a","b","c","1","2","3","4","5">> >>})

NextSequence ==
    \/ StartSweep
    \/ \E t \in Slots : TaskBegin(t)
    \/ \E t \in Slots, resp \in SweepResponses : TaskRespond(t, resp)
    \/ \E t \in Slots : TaskAppName(t)
    \/ \E t \in Slots : TaskNotify(t, "sent")
    \/ EndSweep
    \/ SequenceTick

SpecSequence == InitSequence /\ [][NextSequence]_vars

(***************************************************************************)
(* main.py: sweeps whose notifications are not delivered.                  *)
(***************************************************************************)
NextUndelivered ==
    \/ StartSweep
    \/ \E t \in Slots : TaskBegin(t)
    \/ \E t \in Slots, resp \in SchedResponses : TaskRespond(t, resp)
    \/ \E t \in Slots : TaskAppName(t)
    \/ \E t \in Slots, outcome \in NotifyOutcomes \ {"sent"} : TaskNotify(t, outcome)
    \/ EndSweep
    \/ Tick

SpecUndelivered == InitShutdown /\ [][NextUndelivered]_vars

(***************************************************************************)
(* main.py: the dashboard adds ids of every shape, and the validation is   *)
(* answered in every way.                                                  *)
(***************************************************************************)
\* the ids the dashboard may send: in the list already, padded with
\* whitespace, 12 characters in both cases, empty, blank, 7 and 13
\* characters, and 8 characters with one outside the class
RawIds ==
    { <<"a","b","c","1","2","3","4","5">>, <<" ">> \o <<"x","y","z","9","8","7","6","5">> \o <<"\n">>, <<"A","B","C","x","y","z","0","1","2","3","4","5">>,
      <<>>, <<" ", "\n">>, <<"a","b","c","1","2","3","4">>, <<"a","b","c","d","e","f","g","h","i","0","1","2","3">>, <<"a","b","c","_","1","2","3","4">> }

\* a page whose title names TestFlight in lower case only
LowerCasePage == Page(TRUE, <<"w","e","l","c","o","m","e"," ","t","o"," ","t","e","s","t","f","l","i","g","h","t">>, FALSE, <<>>, <<"j","o","i","n"," ","t","h","e"," ","b","e","t","a">>)

\* what the validation of an id may be answered
ValidateResponses ==
    { HttpResponse(200, OpenPage), HttpResponse(200, FullPage),
      HttpResponse(200, LowerCasePage), HttpResponse(404, OpenPage),
      HttpResponse(500, OpenPage), RaisedResponse("client_error", <<"C","o","n","n","e","c","t","i","o","n"," ","r","e","s","e","t">>) }

InitValidate ==
    /\ now = 0
    /\ _status_cache = << >>
    /\ _cache_enabled = TRUE
    /\ _cache_ttl_seconds = MainCacheTtl
    /\ _rate_limiter = RateLimiter(DefaultMaxRequests, DefaultTimeWindow)
    /\ direct = IdleCall
    /\ retry = IdleRetry
    /\ api = NoCall
    /\ InitEngine({<< <<"a","b","c","1","2","3","4","5">> >>})

NextValidate ==
    \/ \E r \in Requests, raw_id \in RawIds : AddIdBegin(r, raw_id)
    \/ \E r \in Requests, resp \in ValidateResponses, written \in BOOLEAN :
          AddIdFinish(r, resp, written)

SpecValidate == InitValidate /\ [][NextValidate]_vars

(***************************************************************************)
(* Claims about the classifier, checked under SpecFetch.                   *)
(***************************************************************************)
\* two characters are the same letter, letter case ignored
SameLetter(a, b) == a = b \/ LowerChar(a) = LowerChar(b)

\* pattern is a case-insensitive substring of text
ContainsIgnoringCase(pattern, text) ==
    \E i \in 0..(Len(text) - Len(pattern)) :
        \A k \in 1..Len(pattern) : SameLetter(text[i + k], pattern[k])

\* some pattern of the category is a case-insensitive substring of text
CategoryMatches(status, text) ==
    \E i \in 1..Len(STATUS_PATTERNS) :
        /\ STATUS_PATTERNS[i].status = status
        /\ \E j \in 1..Len(STATUS_PATTERNS[i].patterns) :
              ContainsIgnoringCase(STATUS_PATTERNS[i].patterns[j], text)

\* the first category, in the order Full, Closed, Open, that matches; else Unknown
FirstCategory(text) ==
    IF CategoryMatches(FULL, text) THEN FULL
    ELSE IF CategoryMatches(CLOSED, text) THEN CLOSED
    ELSE IF CategoryMatches(OPEN, text) THEN OPEN
    ELSE UNKNOWN

\* the direct call has returned the classification of an HTTP 200 page
Classified200 ==
    /\ direct.pc = "returned"
    /\ direct.resp.kind = "http"
    /\ direct.resp.http_status = 200

\* the examined text as C4 words it: the status element's text when present and non-empty
ExaminedTextNonEmpty(page) ==
    IF page.has_status /\ page.status_text # <<>> THEN page.status_text ELSE get_text(page)

\* the examined text as the code takes it: the status element's text when
\* something is left of it after strip()
ExaminedTextNonBlank(page) ==
    IF page.has_status /\ str_strip(page.status_text) # <<>> THEN page.status_text
    ELSE get_text(page)

ExpectedHttpText(http_status) ==
    CASE http_status = 500 -> <<"H","T","T","P"," ","5","0","0">>
      [] http_status = 503 -> <<"H","T","T","P"," ","5","0","3">>
      [] http_status = 403 -> <<"H","T","T","P"," ","4","0","3">>
      [] http_status = 301 -> <<"H","T","T","P"," ","3","0","1">>
      [] http_status = 204 -> <<"H","T","T","P"," ","2","0","4">>

\* C5: HTTP 404 gives status Error with a status text containing "404"; any
\* other status than 200 gives Error with status text "HTTP <code>"; in both
\* cases nothing of the page is classified: the result carries no raw text
\* and no app name, and nothing is cached.
C5_HttpErrorsNotClassified ==
    (direct.pc = "returned" /\ direct.resp.kind = "http" /\ direct.resp.http_status # 200) =>
        /\ direct.result.status = ERROR
        /\ direct.resp.http_status = 404 =>
              ContainsIgnoringCase(<<"4","0","4">>, direct.result.status_text)
        /\ direct.resp.http_status # 404 =>
              direct.result.status_text = ExpectedHttpText(direct.resp.http_status)
        /\ direct.result.keys = {"error"}
        /\ _status_cache = << >>

\* C5 witness: a 404 whose body reads "join the beta" has been answered
C5_Witness ==
    /\ direct.pc = "returned"
    /\ direct.resp = HttpResponse(404, OpenPage)
    /\ direct.result.status = ERROR

(***************************************************************************)
(* Claims about the change-notification engine, checked under Spec.        *)
(* task[t].previous_status is the value the task read from                 *)
(* _previous_status under the lock, task[t].notify_calls the number of     *)
(* apobj.notify calls it made, task[t].gets the number of session.get      *)
(* calls it made.                                                          *)
(***************************************************************************)
\* the task of slot t has finished its classification with this status
Finished(t, status) == task[t].pc = "done" /\ task[t].result.status = status

\* C1: a classification of Open makes exactly one notify call when the
\* stored previous status is absent or not Open, and none when it is Open.
C1_OpenNotifiesOnChange ==
    \A t \in Slots :
        Finished(t, OPEN) =>
            task[t].notify_calls = IF task[t].previous_status # OPEN THEN 1 ELSE 0

\* C1 witness: a target stored as Full was classified Open and notified once
C1_Witness ==
    \E t \in Slots :
        Finished(t, OPEN) /\ task[t].previous_status = FULL /\ task[t].notify_calls = 1

\* C2: a classification of Error makes no notify call and leaves the
\* previous-status map as it was (absent stays absent, a stored status stays).
C2_ErrorKeepsPreviousStatus ==
    [][\A t \in Slots :
          (task[t].pc # "done" /\ task'[t].pc = "done" /\ task'[t].result.status = ERROR) =>
              /\ _previous_status' = _previous_status
              /\ task'[t].notify_calls = 0]_vars

\* C2 witness: an Error classification of a target whose stored status is Open
C2_Witness ==
    \E t \in Slots :
        /\ Finished(t, ERROR)
        /\ DictGet(_previous_status, task[t].tf_id) = OPEN
        /\ task[t].notify_calls = 0

\* C3: of the classifications Full, Closed and Unknown only Full with a
\* stored previous status of Open notifies, and then exactly once.
C3_OnlyOpenToFullNotifies ==
    \A t \in Slots :
        (\E status \in {FULL, CLOSED, UNKNOWN} : Finished(t, status)) =>
            task[t].notify_calls =
                IF task[t].result.status = FULL /\ task[t].previous_status = OPEN THEN 1 ELSE 0

\* C3 witness: a target stored as Open was classified Full and notified once
C3_Witness ==
    \E t \in Slots :
        Finished(t, FULL) /\ task[t].previous_status = OPEN /\ task[t].notify_calls = 1

\* C6 as stated: every fetch of a sweep that ends in Error records a failure
\* for the target's URL, and every other fetch records a success.
C6_FetchRecordsOutcome ==
    [][\A t \in Slots :
          (task[t].pc # "done" /\ task'[t].pc = "done") =>
              _request_failures' =
                  IF task'[t].result.status = ERROR
                  THEN record_request_failure(_request_failures,
                                              format_link(TESTFLIGHT_URL, task[t].tf_id))
                  ELSE record_request_success(_request_failures,
                                              format_link(TESTFLIGHT_URL, task[t].tf_id))]_vars

\* the default of check_testflight_status_with_retry's max_retries
DefaultMaxRetries == 3

\* C7 as stated: an Error is surfaced to the engine only after the fetch was
\* tried as often as the retry limit allows.
C7_ErrorOnlyAfterRetries ==
    \A t \in Slots : Finished(t, ERROR) => task[t].gets = DefaultMaxRetries

(***************************************************************************)
(* Claims about fetch-with-retry, checked under SpecRetry.  retry.attempts *)
(* counts the calls of check_testflight_status, retry.errors those that    *)
(* gave an Error result, retry.sleeps the backoff sleeps, retry.resp is    *)
(* the response of the last attempt.                                       *)
(***************************************************************************)
\* the error message of an attempt that got this response
ErrorOfAttempt(resp) ==
    CASE resp.kind = "http" /\ resp.http_status = 500 -> <<"H","T","T","P"," ","e","r","r","o","r",":"," ","5","0","0">>
      [] resp.kind = "timeout" -> <<"R","e","q","u","e","s","t"," ","t","i","m","e","d"," ","o","u","t"," ","a","f","t","e","r"," ","1","0","s">>
      [] resp.kind = "client_error" -> <<"N","e","t","w","o","r","k"," ","e","r","r","o","r",":"," ","C","o","n","n","e","c","t","i","o","n"," ","r","e","s","e","t">>
      [] resp.kind = "exception" -> <<"U","n","e","x","p","e","c","t","e","d"," ","e","r","r","o","r",":"," ">>

\* "Failed after {maxRetries} retries: " for the retry limits of the model
FailedAfterPrefix(max_retries) ==
    CASE max_retries = 0 -> <<"F","a","i","l","e","d"," ","a","f","t","e","r"," ","0"," ","r","e","t","r","i","e","s",":"," ">>
      [] max_retries = 1 -> <<"F","a","i","l","e","d"," ","a","f","t","e","r"," ","1"," ","r","e","t","r","i","e","s",":"," ">>
      [] max_retries = 2 -> <<"F","a","i","l","e","d"," ","a","f","t","e","r"," ","2"," ","r","e","t","r","i","e","s",":"," ">>
      [] max_retries = 3 -> <<"F","a","i","l","e","d"," ","a","f","t","e","r"," ","3"," ","r","e","t","r","i","e","s",":"," ">>
      [] max_retries = 4 -> <<"F","a","i","l","e","d"," ","a","f","t","e","r"," ","4"," ","r","e","t","r","i","e","s",":"," ">>
      [] max_retries = 5 -> <<"F","a","i","l","e","d"," ","a","f","t","e","r"," ","5"," ","r","e","t","r","i","e","s",":"," ">>

\* C8: when every attempt yields an Error, exactly maxRetries attempts are
\* made and the result has status Error and the error message
\* "Failed after {maxRetries} retries: <error of the last attempt>".
C8_FailsAfterMaxRetries ==
    (retry.pc = "returned" /\ retry.errors = retry.attempts) =>
        /\ retry.attempts = retry.max_retries
        /\ retry.result.status = ERROR
        /\ "error" \in retry.result.keys
        /\ retry.max_retries >= 1 =>
              retry.result.error = FailedAfterPrefix(retry.max_retries) \o ErrorOfAttempt(retry.resp)
        /\ retry.max_retries = 0 =>
              SubSeq(retry.result.error, 1, Len(FailedAfterPrefix(0))) = FailedAfterPrefix(0)

\* C8 witness: three attempts, the last one a timeout, have all failed
C8_Witness ==
    /\ retry.pc = "returned"
    /\ retry.max_retries = 3
    /\ retry.errors = 3
    /\ retry.resp.kind = "timeout"
    /\ retry.result.status = ERROR

\* C9: the first non-Error result is returned at once: a call that first
\* succeeds on attempt k has made exactly k attempts (k - 1 of them Errors,
\* k <= maxRetries) and k - 1 sleeps, and returns that attempt's result.
C9_SuccessStopsRetrying ==
    /\ (retry.pc = "returned" /\ retry.result.status # ERROR) =>
          /\ retry.attempts = retry.errors + 1
          /\ retry.attempts = retry.attempt + 1
          /\ retry.attempts <= retry.max_retries
          /\ retry.sleeps = retry.attempts - 1
          /\ retry.result.status = OPEN
    /\ retry.errors < retry.attempts => retry.pc \in {"http", "returned"}

\* C9 witness: success on the second of three attempts
C9_Witness ==
    /\ retry.pc = "returned"
    /\ retry.max_retries = 3
    /\ retry.attempts = 2
    /\ retry.errors = 1
    /\ retry.result.status = OPEN

\* base_delay * 2^i for the attempts of the model
ExpectedDelay(base_delay_ms, i) ==
    CASE i = 0 -> base_delay_ms
      [] i = 1 -> base_delay_ms + base_delay_ms
      [] i = 2 -> base_delay_ms + base_delay_ms + base_delay_ms + base_delay_ms
      [] i = 3 -> 8 * base_delay_ms

\* C10: the sleep after attempt i (from 0) is base_delay * 2^i plus a jitter
\* of at most 10% of it; there is a sleep only between two attempts, so
\* never after the last one; and while this call sleeps, another fetch can
\* start and can take the outcome of its request.
C10_BackoffBetweenAttempts ==
    /\ retry.pc = "sleep" =>
          /\ retry.delay_ms = ExpectedDelay(retry.base_delay_ms, retry.attempt)
          /\ 0 <= retry.jitter_ms
          /\ 10 * retry.jitter_ms <= retry.delay_ms
          /\ retry.wake_ms - retry.delay_ms - retry.jitter_ms \in 0..(now * 1000)
          /\ retry.attempt + 1 < retry.max_retries
          /\ direct.pc = "idle" => ENABLED DirectCall(DirectUrl, TRUE, TRUE)
          /\ direct.pc = "http" => ENABLED DirectRespond(RaisedResponse("timeout", <<>>))
    /\ retry.pc \in {"http", "loop", "returned"} /\ retry.attempts >= 1 =>
          retry.sleeps = retry.attempts - 1
    /\ retry.pc = "sleep" => retry.sleeps = retry.attempts
    /\ retry.sleeps <= IF retry.max_retries = 0 THEN 0 ELSE retry.max_retries - 1

\* C10 witness: the third sleep of a call with base_delay 1 s: 4 s and a jitter
C10_Witness ==
    /\ retry.pc = "sleep"
    /\ retry.base_delay_ms = 1000
    /\ retry.attempt = 2
    /\ retry.delay_ms = 4000
    /\ retry.jitter_ms = 400
    /\ direct.pc = "http"

(***************************************************************************)
(* Claims about the circuit breaker, checked under SpecBreaker.            *)
(***************************************************************************)
\* failure_count(key) >= threshold and now - last_failure_time(key) < timeout
CountAndAgeOpen(failures, url) ==
    /\ url \in DOMAIN failures
    /\ failures[url][1] >= 5
    /\ now - failures[url][2] < 300

\* C12: isOpen(key) returns true exactly when failure_count(key) >= threshold
\* and now - last_failure_time(key) < timeout; it is false after fewer than
\* threshold recordFailure calls for the key and true immediately after the
\* threshold-th consecutive one.
C12_OpenIffCountAndAge ==
    /\ [][(api'.op = "is_open" /\ now' = now) =>
             (api'.ret <=> CountAndAgeOpen(_request_failures, api'.url))]_vars
    /\ [](\A u \in BreakerUrls :
             api.streak[u] < 5 => ~is_circuit_breaker_open(_request_failures, u))
    /\ []((/\ api.op = "record_failure"
           /\ api.streak[api.url] = 5
           /\ api.last_time[api.url] = now)
             => is_circuit_breaker_open(_request_failures, api.url))

\* C12 witness: isOpen has returned true for a key with exactly five failures
C12_Witness ==
    /\ api.op = "is_open"
    /\ api.ret = TRUE
    /\ api.streak[api.url] = 5

\* C13: recordSuccess(key) deletes all failure state of the key: isOpen(key)
\* is false right afterwards, threshold further failures are needed to open
\* the circuit again, and the state of every other key is unchanged.
C13_SuccessResetsKey ==
    /\ [][(api'.op = "record_success" /\ now' = now) =>
             /\ api'.url \notin DOMAIN _request_failures'
             /\ ~is_circuit_breaker_open(_request_failures', api'.url)
             /\ \A u \in BreakerUrls \ {api'.url} :
                   /\ u \in DOMAIN _request_failures' <=> u \in DOMAIN _request_failures
                   /\ u \in DOMAIN _request_failures =>
                         _request_failures'[u] = _request_failures[u]]_vars
    /\ [](\A u \in BreakerUrls :
             is_circuit_breaker_open(_request_failures, u) => api.streak[u] >= 5)

\* C13 witness: recordSuccess was called on an open circuit while the other
\* key's circuit was open too, and the other one still is
C13_Witness ==
    /\ api.op = "record_success"
    /\ api.was_open
    /\ api.url \notin DOMAIN _request_failures
    /\ \E u \in BreakerUrls \ {api.url} : is_circuit_breaker_open(_request_failures, u)

\* C14: a key's failure state is gone once timeout seconds have passed since
\* its last recorded failure: isOpen(key) is then false without a success
\* call, and the circuit opens again only after threshold new recordFailure
\* calls (failures older than the timeout no longer count).
C14_FailuresExpire ==
    \A u \in BreakerUrls :
        /\ (api.streak[u] > 0 /\ now - api.last_time[u] >= 300) =>
              ~is_circuit_breaker_open(_request_failures, u)
        /\ is_circuit_breaker_open(_request_failures, u) => api.counted[u] >= 5

(***************************************************************************)
(* Claims about the result cache, checked under SpecCache.                 *)
(***************************************************************************)
\* C16: cache round trip: while the cache is enabled, get(url) after
\* put(url, r) returns r as long as the entry's age is below the TTL and no
\* put for that url, clear or disable has happened in between.
C16_GetReturnsLastPut ==
    (/\ api.op = "get"
     /\ _cache_enabled
     /\ api.put[api.url] # <<>>
     /\ ~api.lapsed[api.url])
        => api.ret = << api.put[api.url][1] >>

\* C16 witness: a get one tick after the put, under the TTL of 300 s, has
\* returned the Full result that was put
C16_Witness ==
    /\ api.op = "get"
    /\ _cache_ttl_seconds = 300
    /\ api.put[api.url] # <<>>
    /\ api.at = api.put[api.url][2] + TickStep
    /\ api.ret # <<>>
    /\ api.ret[1].status = FULL

\* C17: lazy expiry: a get on an entry whose age has reached the TTL returns
\* absent and removes exactly that entry; an entry leaves the cache only by
\* such a get, by clear or by disable, and changes only by a put for its
\* url; the passing of time alone removes nothing.
C17_LazyExpiry ==
    [][/\ (/\ api'.op = "get" /\ now' = now
           /\ api'.url \in DOMAIN _status_cache
           /\ now - _status_cache[api'.url][2] >= _cache_ttl_seconds)
              => /\ api'.ret = <<>>
                 /\ _status_cache' = DictDel(_status_cache, api'.url)
       /\ \A u \in DOMAIN _status_cache \ DOMAIN _status_cache' :
             /\ now' = now
             /\ \/ api'.op \in {"clear", "disable"}
                \/ /\ api'.op = "get"
                   /\ api'.url = u
                   /\ now - _status_cache[u][2] >= _cache_ttl_seconds
       /\ \A u \in DOMAIN _status_cache \cap DOMAIN _status_cache' :
             _status_cache'[u] # _status_cache[u] =>
                 now' = now /\ api'.op = "put" /\ api'.url = u
       /\ now' # now => _status_cache' = _status_cache]_vars

\* C17 witness: a get has found its entry exactly TTL old and returned
\* absent; the entry is gone and the other URL's entry is still there
C17_Witness ==
    /\ api.op = "get"
    /\ api.ret = <<>>
    /\ api.put[api.url] # <<>>
    /\ api.at - api.put[api.url][2] = _cache_ttl_seconds
    /\ api.url \notin DOMAIN _status_cache
    /\ DOMAIN _status_cache # {}

\* C18: the cache is disabled until enable is called; while it is disabled
\* put stores nothing and get returns absent; enable called again with the
\* same TTL changes neither the flag, the TTL nor the entries.
C18_DisabledUntilEnabled ==
    /\ [](~api.enabled_once => ~_cache_enabled)
    /\ [](~_cache_enabled => _status_cache = << >>)
    /\ [][/\ (api'.op = "put" /\ now' = now /\ ~_cache_enabled)
                => _status_cache' = _status_cache
          /\ (api'.op = "get" /\ now' = now /\ ~_cache_enabled)
                => api'.ret = <<>> /\ _status_cache' = _status_cache
          /\ (api'.op = "enable" /\ now' = now /\ _cache_enabled
                /\ api'.ttl = _cache_ttl_seconds)
                => /\ _cache_enabled' = _cache_enabled
                   /\ _cache_ttl_seconds' = _cache_ttl_seconds
                   /\ _status_cache' = _status_cache]_vars

\* C18 witness: a put was made on the disabled cache, which holds nothing
C18_Witness ==
    /\ api.op = "put"
    /\ ~_cache_enabled
    /\ api.ret # <<>>
    /\ _status_cache = << >>

(***************************************************************************)
(* Claims about the cache in the fetch path.                               *)
(***************************************************************************)
\* C15: the cache never holds an entry whose status is Error: only results
\* of a 200 classification (Open, Full, Closed, Unknown) are stored, and a
\* fetch that ends in Error leaves the cache unchanged.  (Spec)
C15_NoErrorCached ==
    /\ [](\A u \in DOMAIN _status_cache :
             _status_cache[u][1].status \in {OPEN, FULL, CLOSED, UNKNOWN})
    /\ [][\A t \in Slots :
             (task[t].pc = "http" /\ task'[t].pc = "done"
                 /\ task'[t].result.status = ERROR)
                => _status_cache' = _status_cache]_vars

\* C15 witness: one target's fetch ended in Error while the cache holds the
\* other target's result and none for this one
C15_Witness ==
    \E t \in Slots :
        /\ Finished(t, ERROR)
        /\ task[t].resp.kind # "none"
        /\ DOMAIN _status_cache # {}
        /\ format_link(TESTFLIGHT_URL, task[t].tf_id) \notin DOMAIN _status_cache

\* the cache holds an entry for url that has not reached its TTL
ValidEntry(url) ==
    /\ _cache_enabled
    /\ url \in DOMAIN _status_cache
    /\ now - _status_cache[url][2] < _cache_ttl_seconds

\* the rate limiter has just recorded a request
AcquiredSlot ==
    /\ _rate_limiter.requests # <<>>
    /\ _rate_limiter.requests[Len(_rate_limiter.requests)] = now

\* C19: a fetch called with caching on that finds a valid entry returns it
\* tagged cached = true at once, with no rate-limiter slot acquired and no
\* HTTP request; the rate limiter is consulted only after a cache miss.
\* (SpecRetry: the direct call and every attempt of the retrying call)
C19_CacheHitSkipsLimiter ==
    [][/\ (direct.pc = "idle" /\ direct'.pc # "idle") =>
             IF direct'.use_cache /\ ValidEntry(direct'.url)
             THEN /\ direct'.pc = "returned"
                  /\ direct'.resp = NoResponse
                  /\ direct'.result.cached = TRUE
                  /\ direct'.result.status = _status_cache[direct'.url][1].status
                  /\ _rate_limiter' = _rate_limiter
             ELSE /\ direct'.pc = "http"
                  /\ direct'.use_rate_limit =>
                        _rate_limiter' # _rate_limiter /\ AcquiredSlot'
       /\ (retry'.attempts = retry.attempts + 1) =>
             IF retry'.use_cache /\ ValidEntry(retry'.url)
             THEN /\ retry'.pc = "returned"
                  /\ retry'.resp = NoResponse
                  /\ retry'.result.cached = TRUE
                  /\ retry'.result.status = _status_cache[retry'.url][1].status
                  /\ _rate_limiter' = _rate_limiter
             ELSE /\ retry'.pc = "http"
                  /\ retry'.use_rate_limit =>
                        _rate_limiter' # _rate_limiter /\ AcquiredSlot'
       /\ _rate_limiter' # _rate_limiter =>
             \/ direct.pc = "idle" /\ direct'.pc = "http" /\ ~ValidEntry(direct'.url)
             \/ retry'.attempts = retry.attempts + 1 /\ retry'.pc = "http"
                   /\ ~(retry'.use_cache /\ ValidEntry(retry'.url))]_vars

\* C19 witness: the direct call was answered from the cache, filled by the
\* retrying call's one request, the only one the rate limiter has seen
C19_Witness ==
    /\ direct.pc = "returned"
    /\ direct.resp = NoResponse
    /\ direct.result.cached = TRUE
    /\ retry.attempts = 1
    /\ retry.use_rate_limit
    /\ Len(_rate_limiter.requests) = 1

(***************************************************************************)
(* Claims about exceptions, checked under SpecRetry.                       *)
(***************************************************************************)
\* what session.get or the parsing raised
Raised == {"timeout", "client_error", "exception"}

\* the result is an Error with an error message
IsErrorResult(result) ==
    /\ result.status = ERROR
    /\ "error" \in result.keys
    /\ result.error # <<>>

\* C11: the fetch and the fetch with retry never raise: a timeout, a client
\* error or any other exception during the GET or the classification ends
\* in a returned result with status Error and an error message.
C11_ExceptionsBecomeErrorResults ==
    /\ direct.pc \in {"idle", "http", "returned"}
    /\ retry.pc \in {"idle", "http", "sleep", "loop", "returned"}
    /\ (direct.pc = "returned" /\ direct.resp.kind \in Raised) => IsErrorResult(direct.result)
    /\ (retry.pc # "idle" /\ retry.pc # "http" /\ retry.resp.kind \in Raised) =>
          IF retry.pc = "returned"
          THEN IsErrorResult(retry.result)
          ELSE IsErrorResult(retry.last_result)

\* C11 witness: the direct call has returned from a timeout, the retrying
\* call from a last attempt that raised outside aiohttp
C11_Witness ==
    /\ direct.pc = "returned"
    /\ direct.resp.kind = "timeout"
    /\ direct.result.status = ERROR
    /\ retry.pc = "returned"
    /\ retry.resp.kind = "exception"
    /\ retry.attempts = 2
    /\ retry.result.status = ERROR

(***************************************************************************)
(* Claims about the rate limiter, checked under SpecLimiter.               *)
(***************************************************************************)
\* C20: on a limiter whose window is empty, the first max_requests acquire()
\* calls return without sleeping; a further call made while those requests
\* are all still inside the window is delayed by a positive amount of at
\* most time_window: until the oldest of them leaves the window.
C20_FirstCallsFreeNextDelayed ==
    \A c \in LimiterCallers :
        LET call == api.caller[c]
            max_requests == _rate_limiter.max_requests
            time_window == _rate_limiter.time_window
        IN  /\ call.index \in 1..max_requests =>
                  call.pc = "done" /\ call.delay = 0
            /\ (/\ call.index = max_requests + 1
                /\ \A i \in 1..max_requests : call.entered_at - api.entered[i] < time_window)
                  => /\ call.pc \in {"sleeping", "done"}
                     /\ call.delay > 0
                     /\ call.delay <= time_window
                     /\ call.entered_at + call.delay = api.entered[1] + time_window
                     /\ call.pc = "done" => now >= api.entered[1] + time_window

\* C20 witness: with two requests allowed per window of two ticks, made at
\* time 0 and one tick later, the third call sleeps one tick
C20_Witness ==
    /\ _rate_limiter.max_requests = 2
    /\ _rate_limiter.time_window = 2 * TickStep
    /\ api.entered = <<0, TickStep, TickStep>>
    /\ \E c \in LimiterCallers :
          /\ api.caller[c].index = 3
          /\ api.caller[c].pc = "sleeping"
          /\ api.caller[c].delay = TickStep

\* C21: under any interleaving of concurrent acquire() calls on one limiter
\* the number of recorded requests inside the sliding window, which is what
\* get_stats reports as current_requests, never exceeds max_requests.
C21_WindowNeverExceedsMax ==
    /\ get_stats(_rate_limiter).current_requests <= _rate_limiter.max_requests
    /\ api.op = "get_stats" /\ api.stats_at = now
          => api.stats.current_requests <= _rate_limiter.max_requests

\* the recorded requests that were inside the window at time t
InsideWindowAt(t) ==
    { i \in 1..Len(_rate_limiter.requests) :
         t - _rate_limiter.requests[i] <= _rate_limiter.time_window }

\* C22: get_stats() reports as current_requests the number of recorded
\* requests still inside the window and as remaining the difference
\* max_requests - current_requests, or 0 when that is negative, so remaining
\* is never negative; the call leaves the limiter as it was.
C22_StatsCountWindowAndFloor ==
    /\ [][api'.op = "get_stats" /\ now' = now => _rate_limiter' = _rate_limiter]_vars
    /\ [](api.op = "get_stats" =>
            LET stats == api.stats
                inside == Cardinality(InsideWindowAt(api.stats_at))
            IN  /\ stats.max_requests = _rate_limiter.max_requests
                /\ stats.time_window = _rate_limiter.time_window
                /\ stats.current_requests = inside
                /\ stats.remaining >= 0
                /\ inside <= stats.max_requests
                      => stats.remaining = stats.max_requests - inside
                /\ inside > stats.max_requests => stats.remaining = 0)

\* C22 witness: get_stats() is called on a limiter that holds more requests
\* inside its window than it allows, and reports that nothing remains
C22_Witness ==
    /\ api.op = "get_stats"
    /\ api.stats.current_requests > api.stats.max_requests
    /\ api.stats.remaining = 0
    /\ Len(_rate_limiter.requests) = api.stats.current_requests

(***************************************************************************)
(* Claims about the sweep and its scheduler.                               *)
(***************************************************************************)
\* the status stored for the target of slot u
StoredFor(prev, u) == DictGet(prev, task[u].tf_id)

\* C23: within one sweep every target of the sweep's list is classified; an
\* Error result or an exception for one target does not end the sweep early
\* and changes neither the classification, nor the stored previous status,
\* nor the notifications of another target.
C23_FailuresStayWithTheirTarget ==
    /\ [][\A t \in Slots : \A u \in Slots \ {t} :
            (/\ watch' = watch
             /\ task'[t] # task[t]
             /\ task[t].tf_id # task[u].tf_id)
               => /\ task'[u] = task[u]
                  /\ StoredFor(_previous_status', u) = StoredFor(_previous_status, u)]_vars
    /\ [](watch.pc = "sleep" =>
            \A i \in 1..Len(watch.current_ids) :
                LET tk == task[SlotIds[i]]
                IN  /\ tk.tf_id = watch.current_ids[i]
                    /\ tk.pc \in {"done", "raised"}
                    /\ tk.result.status \in TestFlightStatus
                    /\ tk.gets = 1 =>
                          tk.result = FetchResult(format_link(TESTFLIGHT_URL, tk.tf_id),
                                                  TRUE, tk.resp)
                    /\ tk.result.status # ERROR =>
                          /\ tk.should_notify =
                                ShouldNotify(tk.result.status, tk.previous_status)
                          /\ tk.pc = "done" =>
                                tk.notify_calls = IF tk.should_notify THEN 1 ELSE 0)

\* C23 witness: a sweep over two targets has ended in which one target's
\* task ended in its except clause while the other target was classified
\* Open, stored as Open and notified; an earlier sweep had an Error result
C23_Witness ==
    /\ watch.pc = "sleep"
    /\ _metrics.failed_checks = 1
    /\ _metrics.status_counts[ERROR] >= 2
    /\ \E t \in Slots : \E u \in Slots \ {t} :
          /\ task[t].tf_id # task[u].tf_id
          /\ task[t].pc = "raised"
          /\ Finished(u, OPEN)
          /\ task[u].notify_calls = 1
          /\ StoredFor(_previous_status, u) = OPEN

\* a sweep starts in this step
SweepStarts == watch.pc # "gather" /\ watch'.pc = "gather"

\* C24: once shutdown_event is set it stays set, and no sweep starts in any
\* state after the one in which it became set.
C24_NoSweepAfterShutdown ==
    [][shutdown_event => shutdown_event' /\ ~SweepStarts]_vars

\* C24 witness: after a first sweep the event was set during the sleep; the
\* scheduler woke when its sleep was over and returned without a sweep
C24_Witness ==
    /\ shutdown_event
    /\ watch.pc = "returned"
    /\ watch.ended_at > 0
    /\ now >= watch.wake
    /\ main.pc = "wait"

\* C25: a fetch task cancelled because of shutdown ends as cancelled: its
\* result is not turned into an Error result, no check is recorded in the
\* metrics and the previous-status map stays as it was; the scheduler ends
\* cancelled as well, and async_main runs to its end.
C25_CancellationIsNotAnError ==
    /\ [][\A t \in Slots :
            (task[t].pc = "cancelling" /\ task'[t].pc # "cancelling") =>
                /\ task'[t].pc = "cancelled"
                /\ task'[t].result = task[t].result
                /\ _metrics' = _metrics
                /\ _previous_status' = _previous_status]_vars
    /\ [](\A t \in Slots :
            task[t].pc = "cancelled" =>
                /\ watch.pc \in {"cancelling", "cancelled"}
                /\ main.pc \in {"gather", "closing", "exited"})
    /\ [](main.pc = "exited" => watch.pc \in {"cancelled", "returned"})

\* C25 witness: a task was cancelled while it waited for its response; no
\* check was ever recorded, and the scheduler and async_main have ended
C25_Witness ==
    /\ main.pc = "exited"
    /\ watch.pc = "cancelled"
    /\ _metrics = MetricsCollector
    /\ _previous_status = << >>
    /\ \E t \in Slots : task[t].pc = "cancelled" /\ task[t].gets = 1

\* a fetch task of the sweep has not ended yet
InFlight == \E t \in Slots : ~Settled(task[t])

C27_SweepsSpacedByInterval ==
    [][SweepStarts =>
          /\ watch.pc \in {"settle", "sleep"}
          /\ watch.pc = "settle" => now >= SettleDelay
          /\ watch.pc = "sleep" => 1000 * (now - watch.ended_at) >= SLEEP_TIME
          /\ ~InFlight]_vars

\* C27 witness: a second sweep is running, started SLEEP_TIME ms or more
\* after the first one ended, whose tasks are replaced by the new ones
C27_Witness ==
    /\ watch.pc = "gather"
    /\ watch.ended_at >= SettleDelay
    /\ 1000 * (now - watch.ended_at) >= SLEEP_TIME
    /\ \A t \in Slots : task[t].pc = "created"

(***************************************************************************)
(* Claims about the target list and the notification URLs.                 *)
(***************************************************************************)
\* C28: when remove_testflight_id(tf_id) succeeds the engine holds no
\* previous status for tf_id any more (so that the id, added again, is
\* classified without history and its first Open notifies).
C28_RemoveForgetsStatus ==
    [][\A r \in Requests :
          (/\ request'[r].op = "remove_id"
           /\ request'[r].pc = "done"
           /\ request'[r].ok
           /\ current_id_list' # current_id_list)
             => request'[r].arg \notin DOMAIN _previous_status']_vars

\* what C28 is to prevent: a target that was removed and added again is
\* classified Open, and no notification is sent because of its old status
C28_Consequence ==
    /\ request["r1"].op = "add_id"
    /\ request["r1"].ok
    /\ \E t \in Slots :
          /\ Finished(t, OPEN)
          /\ task[t].tf_id = request["r1"].arg
          /\ task[t].previous_status = OPEN
          /\ task[t].notify_calls = 0

\* the number of entries of the list that are x
Count(list, x) == Cardinality({ i \in 1..Len(list) : list[i] = x })

\* C29: adding an id that is in the list fails and leaves the list as it
\* is; no add raises the number of entries of an id above one; an add that
\* succeeds leaves exactly one entry for its id, also when another request
\* for the same new id passed validation at the same time.
C29_AddNeverDuplicates ==
    [][/\ \A r \in Requests :
            (request[r].pc = "validating" /\ request'[r].pc = "done") =>
                /\ InList(current_id_list, request[r].arg) =>
                      /\ ~request'[r].ok
                      /\ request'[r].message # <<>>
                      /\ current_id_list' = current_id_list
                /\ request'[r].ok => Count(current_id_list', request[r].arg) = 1
       /\ \A tf_id \in TfIds :
            Count(current_id_list', tf_id) > Count(current_id_list, tf_id) =>
                Count(current_id_list', tf_id) = 1]_vars

\* C29 witness: two requests for the same new id passed validation at the
\* same time; one added it, the other was refused, and the id is listed once
C29_Witness ==
    /\ request["r1"].pc = "done" /\ request["r2"].pc = "done"
    /\ request["r1"].op = "add_id" /\ request["r2"].op = "add_id"
    /\ request["r1"].arg = request["r2"].arg
    /\ request["r2"].rivals = {"r1"}
    /\ request["r1"].ok
    /\ ~request["r2"].ok
    /\ request["r2"].message = <<"T","e","s","t","F","l","i","g","h","t"," ","I","D"," ","a","l","r","e","a","d","y"," ","e","x","i","s","t","s">>
    /\ Count(current_id_list, request["r1"].arg) = 1

\* the lists the dashboard changes
Lists == <<current_id_list, current_apprise_urls, apobj>>

\* C30: the target list, the URL list and the live Apprise object change
\* only in a step whose update_env_file wrote the new list; a request whose
\* write failed, or a removal of something that is not listed, returns a
\* failure with a message and leaves all three as they were.
C30_ChangeOnlyAfterPersist ==
    [][/\ Lists' # Lists =>
            \E r \in Requests :
                LET q == request'[r]
                IN  /\ q.pc = "done" /\ q.ok /\ q.persisted
                    /\ q.op \in {"add_id", "remove_id"} =>
                          /\ env_file'.ID_LIST =
                                IF q.op = "add_id" THEN current_id_list \o <<q.arg>>
                                ELSE RemoveAll(current_id_list, q.arg)
                          /\ UNCHANGED <<current_apprise_urls, apobj>>
                    /\ q.op \in {"add_url", "remove_url"} =>
                          /\ env_file'.APPRISE_URL =
                                IF q.op = "add_url" THEN current_apprise_urls \o <<q.arg>>
                                ELSE RemoveAll(current_apprise_urls, q.arg)
                          /\ apobj' = current_apprise_urls'
                          /\ UNCHANGED current_id_list
       /\ \A r \in Requests :
            (request'[r] # request[r] /\ request'[r].pc = "done") =>
                LET q == request'[r]
                IN  /\ ~q.persisted => ~q.ok
                    /\ (q.op = "remove_id" /\ ~InList(current_id_list, q.arg)) => ~q.ok
                    /\ (q.op = "remove_url" /\ ~InList(current_apprise_urls, q.arg)) => ~q.ok
                    /\ ~q.ok => /\ q.message # <<>>
                                /\ Lists' = Lists]_vars

\* C30 witness: the removal of a listed id failed because the .env file
\* could not be written; the id is still listed
C30_Witness ==
    \E r \in Requests :
        /\ request[r].pc = "done"
        /\ request[r].op = "remove_id"
        /\ ~request[r].ok
        /\ request[r].message = <<"F","a","i","l","e","d"," ","t","o"," ","u","p","d","a","t","e"," ",".","e","n","v"," ","f","i","l","e">>
        /\ InList(current_id_list, request[r].arg)
        /\ env_file.ID_LIST = current_id_list

(***************************************************************************)
(* Claims about the validation of added ids, checked under SpecValidate.   *)
(***************************************************************************)
\* the letters and digits of ASCII
AsciiLettersAndDigits ==
    LET all == <<"A","B","C","D","E","F","G","H","I","J","K","L","M","N","O","P","Q","R","S","T","U","V","W","X","Y","Z","a","b","c","d","e","f","g","h","i","j","k","l","m","n","o","p","q","r","s","t","u","v","w","x","y","z","0","1","2","3","4","5","6","7","8","9">>
    IN  {all[i] : i \in 1..Len(all)}

\* the id consists of 8 to 12 ASCII letters and digits
SyntacticallyValid(id) ==
    /\ Len(id) >= 8
    /\ Len(id) <= 12
    /\ \A i \in 1..Len(id) : id[i] \in AsciiLettersAndDigits

\* the live check was answered with HTTP 200 and a title containing the
\* platform marker
LiveCheckPassed(resp) ==
    /\ resp.kind = "http"
    /\ resp.http_status = 200
    /\ resp.page.has_title
    /\ \E i \in 0..(Len(resp.page.title) - 10) :
          SubSeq(resp.page.title, i + 1, i + 10) = <<"T","e","s","t","F","l","i","g","h","t">>

\* the add request r ends in this step
AddEnds(r) ==
    /\ request'[r] # request[r]
    /\ request'[r].op = "add_id"
    /\ request'[r].pc = "done"

\* C31: an id enters the target list only at the end of an add request
\* whose id consists of 8 to 12 ASCII letters and digits and whose live
\* check was answered with HTTP 200 and a title containing "TestFlight";
\* an add request whose id fails either check ends refused, with a reason,
\* and leaves the list as it was.
C31_OnlyValidatedIdsAdded ==
    [][ /\ Len(current_id_list') > Len(current_id_list) =>
            \E r \in Requests :
               /\ AddEnds(r)
               /\ current_id_list' = Append(current_id_list, request'[r].arg)
               /\ SyntacticallyValid(request'[r].arg)
               /\ LiveCheckPassed(request'[r].resp)
        /\ \A r \in Requests :
               ( /\ AddEnds(r)
                 /\ \/ ~SyntacticallyValid(request'[r].arg)
                    \/ ~LiveCheckPassed(request'[r].resp) )
               => /\ ~request'[r].ok
                  /\ request'[r].message # <<>>
                  /\ current_id_list' = current_id_list
      ]_vars

\* one request added a 12-character id of both letter cases after a passed
\* live check; the other was refused for an id of 13 characters, or for a
\* title without the marker, and the refused id is not in the list
C31_Witness ==
    \E r \in Requests, q \in Requests :
       /\ request[r].pc = "done" /\ request[r].op = "add_id" /\ request[r].ok
       /\ request[r].arg = <<"A","B","C","x","y","z","0","1","2","3","4","5">>
       /\ InList(current_id_list, request[r].arg)
       /\ request[q].pc = "done" /\ request[q].op = "add_id" /\ ~request[q].ok
       /\ request[q].arg = <<"x","y","z","9","8","7","6","5">>
       /\ request[q].resp = HttpResponse(200, LowerCasePage)
       /\ request[q].message = <<"N","o","t"," ","a"," ","v","a","l","i","d"," ","T","e","s","t","F","l","i","g","h","t"," ","p","a","g","e">>
       /\ ~InList(current_id_list, request[q].arg)

(***************************************************************************)
(* Claims about the metrics, checked under Spec.                           *)
(***************************************************************************)
\* the sum of the per-status counts
SumOfStatusCounts(m) ==
    m.status_counts[OPEN] + m.status_counts[FULL] + m.status_counts[CLOSED]
        + m.status_counts[UNKNOWN] + m.status_counts[ERROR]

\* from m to n one check was counted: the total, one of successful / failed
\* and one status count are each one higher
OneCheckCounted(m, n) ==
    /\ n.total_checks = m.total_checks + 1
    /\ \/ /\ n.successful_checks = m.successful_checks + 1
          /\ n.failed_checks = m.failed_checks
       \/ /\ n.successful_checks = m.successful_checks
          /\ n.failed_checks = m.failed_checks + 1
    /\ \E s \in TestFlightStatus :
          n.status_counts = [m.status_counts EXCEPT ![s] = @ + 1]

\* the task's fetch returns or fails in this step: its classification is made
ClassifiedNow(t) ==
    /\ task[t].pc \in {"created", "http"}
    /\ task'[t].pc \in {"get_app_name", "notify", "done", "raised"}

\* C32: the step in which a task's classification is made, successful or
\* failed, counts one check (total + 1, one of successful / failed + 1, one
\* status count + 1), no other step of a task changes the metrics, and in
\* every state total = successful + failed = the sum of the status counts.
C32_OneCountPerClassification ==
    /\ [][ \A t \in Slots :
              task'[t] # task[t] =>
                 IF ClassifiedNow(t)
                 THEN OneCheckCounted(_metrics, _metrics')
                 ELSE _metrics' = _metrics ]_vars
    /\ [](/\ _metrics.total_checks = _metrics.successful_checks + _metrics.failed_checks
          /\ _metrics.total_checks = SumOfStatusCounts(_metrics))

\* one sweep over one target has ended and two checks are counted
C32_CountedTwice ==
    /\ watch.pc = "sleep"
    /\ Len(watch.current_ids) = 1
    /\ _metrics.total_checks = 2
    /\ _metrics.successful_checks = 1
    /\ _metrics.failed_checks = 1

(***************************************************************************)
(* Claims about undelivered notifications, checked under SpecUndelivered,  *)
(* where apobj.notify returns False or raises every time.                  *)
(***************************************************************************)
\* the task's call of apobj.notify ends in this step, undelivered
Undelivered(t) ==
    /\ task[t].pc = "notify"
    /\ task'[t].pc # "notify"
    /\ task'[t].outcome \in {"failed", "raised"}

\* C33: when a task's notification is not delivered (apobj.notify returns
\* False or raises), the task ends by a return, the other tasks and the
\* scheduler are as they were, no failed check is recorded, the stored
\* status stays the one the classification set, and the task fetches no
\* second time; the stored status changes only to the status a task
\* classifies, and a notification becomes due only for a status different
\* from the stored one, so that it is not sent again on a later sweep with
\* the same status.
C33_UndeliveredChangesNothing ==
    [][ /\ \A t \in Slots :
              /\ Undelivered(t) =>
                    /\ task'[t].pc = "done"
                    /\ \A u \in Slots \ {t} : task'[u] = task[u]
                    /\ watch' = watch
                    /\ _metrics' = _metrics
                    /\ _previous_status' = _previous_status
                    /\ _previous_status[task[t].tf_id] = task[t].result.status
                    /\ task'[t].gets = task[t].gets
              /\ (task[t].pc # "notify" /\ task'[t].pc = "notify") =>
                    DictGet(_previous_status, task'[t].tf_id) # task'[t].result.status
              /\ task'[t].gets <= 1
        /\ _previous_status' # _previous_status =>
              \E t \in Slots :
                 /\ task'[t] # task[t]
                 /\ _previous_status' =
                       DictSet(_previous_status, task[t].tf_id, task'[t].result.status)
      ]_vars

\* the second sweep has ended: the first target, whose notification of the
\* first sweep was not delivered, is Open again and nothing was sent for
\* it; the second target's notification has just raised, and no check
\* counts as failed
C33_Witness ==
    /\ watch.pc = "sleep"
    /\ _metrics.total_checks = 4
    /\ _metrics.failed_checks = 0
    /\ _metrics.status_counts[OPEN] = 3
    /\ task["t1"].pc = "done"
    /\ task["t1"].result.status = OPEN
    /\ task["t1"].previous_status = OPEN
    /\ task["t1"].notify_calls = 0
    /\ task["t2"].pc = "done"
    /\ task["t2"].outcome = "raised"
    /\ task["t2"].notify_calls = 1
    /\ task["t2"].previous_status = None
    /\ _previous_status[task["t2"].tf_id] = OPEN

(***************************************************************************)
(* Claims about two tasks of one target, checked under Spec, whose id list *)
(* may hold an id twice.                                                   *)
(***************************************************************************)
\* the task has read and written the stored status
Decided(tk) == tk.pc \in {"notify", "done", "raised"} /\ tk.result.status \notin {ERROR, None}

\* C34: of two tasks of one sweep that classify the same id as Open, at
\* least one of which read a stored status other than Open, exactly one
\* decides to notify, and when both have ended by return exactly one call
\* of apobj.notify was made.
C34_OneOfTwoNotifies ==
    \A t \in Slots, u \in Slots :
       ( /\ t # u
         /\ task[t].tf_id = task[u].tf_id
         /\ Decided(task[t]) /\ Decided(task[u])
         /\ task[t].result.status = OPEN /\ task[u].result.status = OPEN
         /\ (task[t].previous_status # OPEN \/ task[u].previous_status # OPEN) )
       => /\ task[t].should_notify # task[u].should_notify
          /\ (task[t].pc = "done" /\ task[u].pc = "done") =>
                task[t].notify_calls + task[u].notify_calls = 1

\* both tasks of the same id fetched the page, both found it Open; the
\* second slot's task decided first and notified, the first slot's task
\* read Open and did not
C34_Witness ==
    /\ task["t1"].tf_id = task["t2"].tf_id
    /\ task["t1"].gets = 1 /\ task["t2"].gets = 1
    /\ task["t1"].pc = "done" /\ task["t2"].pc = "done"
    /\ task["t1"].result.status = OPEN /\ task["t2"].result.status = OPEN
    /\ task["t2"].previous_status = None /\ task["t2"].notify_calls = 1
    /\ task["t1"].previous_status = OPEN /\ task["t1"].notify_calls = 0

(***************************************************************************)
(* Claims about sequences of sweeps of one target, checked under           *)
(* SpecSequence.                                                           *)
(***************************************************************************)
\* the statuses classified, in the order of the log
Classifications(lines) ==
    LET c == SelectSeq(lines, LAMBDA l : l.event = "classified")
    IN  [i \in 1..Len(c) |-> c[i].status]

\* the log without its Error classifications
WithoutErrors(lines) ==
    SelectSeq(lines, LAMBDA l : ~(l.event = "classified" /\ l.status = ERROR))

\* the number of notify calls in the log
NotifyCalls(lines) == Len(SelectSeq(lines, LAMBDA l : l.event = "notify"))

RECURSIVE LogOf(_, _, _)
\* the log of the sweeps that classify the target tf_id as seq[1], seq[2],
\* ... from the stored status prev on, none of them Error: a notify call
\* after Open unless Open was stored, and after Full if Open was stored
LogOf(tf_id, prev, seq) ==
    IF seq = <<>> THEN <<>>
    ELSE LET s == Head(seq)
             line == [event |-> "classified", tf_id |-> tf_id, status |-> s]
             call == [event |-> "notify", tf_id |-> tf_id, status |-> s]
             notifies == (s = OPEN /\ prev # OPEN) \/ (s = FULL /\ prev = OPEN)
         IN  <<line>> \o (IF notifies THEN <<call>> ELSE <<>>)
                      \o LogOf(tf_id, s, Tail(seq))

\* no task is between its classification and the end of its notification
NoTaskUnderWay == \A t \in Slots : task[t].pc \in {"none", "created", "http", "done"}

\* C35: whenever no task is under way, the log without its Error
\* classifications is the log of the same sweeps without the Error ones; in
\* particular the sweeps Open, Error, Open make one notify call and the
\* sweeps Open, Unknown, Open make two.
C35_ErrorSweepsAreTransparent ==
    NoTaskUnderWay =>
       /\ WithoutErrors(api.lines) =
             LogOf(current_id_list[1], None,
                   Classifications(WithoutErrors(api.lines)))
       /\ Classifications(api.lines) = <<OPEN, ERROR, OPEN>> => NotifyCalls(api.lines) = 1
       /\ Classifications(api.lines) = <<OPEN, UNKNOWN, OPEN>> => NotifyCalls(api.lines) = 2

\* three sweeps found the target Open, in Error and Open again, and one
\* notify call was made, after the first
C35_Witness ==
    /\ watch.pc = "sleep"
    /\ Classifications(api.lines) = <<OPEN, ERROR, OPEN>>
    /\ NotifyCalls(api.lines) = 1
    /\ api.lines[2].event = "notify"
    /\ task["t1"].gets = 1
    /\ task["t1"].previous_status = OPEN

\* three sweeps found the target Open, Unknown and Open again, and two
\* notify calls were made
C35_UnknownIsNotTransparent ==
    /\ watch.pc = "sleep"
    /\ Classifications(api.lines) = <<OPEN, UNKNOWN, OPEN>>
    /\ NotifyCalls(api.lines) = 2

(***************************************************************************)
(* Claims about the locks of the lists, checked under SpecAdmin.           *)
(***************************************************************************)
\* C36: every file or network call a dashboard request has made (reading
\* and writing the .env file, sending a notification, fetching a page) was
\* made with no lock held.
C36_NoIoUnderLock ==
    \A r \in Requests :
       \A i \in 1..Len(request[r].io) : request[r].io[i].held = {}

\* a removal has written the .env file and sent its notification, both
\* inside `with id_list_lock`
C36_Consequence ==
    \E r \in Requests :
       /\ request[r].op = "remove_id"
       /\ request[r].ok
       /\ request[r].io = << [call |-> "update_env_file", held |-> {"id_list_lock"}],
                             [call |-> "send_notification", held |-> {"id_list_lock"}] >>


\* the sessions that are open
OpenSessions == {i \in 1..Len(sessions) : sessions[i] = "open"}

\* a step in which watch() calls get_http_session()
SweepGetsSession == watch.pc # "gather" /\ watch'.pc = "gather"

Unlisted(t) == task[t].pc # "none" /\ ~InList(current_id_list, task[t].tf_id)

\* the tasks of the sweep are those of the ids in ids, one each, in order
TasksAre(ids) ==
    \A i \in 1..Len(SlotIds) :
        IF i <= Len(ids)
        THEN task[SlotIds[i]].pc # "none" /\ task[SlotIds[i]].tf_id = ids[i]
        ELSE task[SlotIds[i]].pc = "none"

\* C38: a sweep checks exactly the ids that were in the list when it
\* started: a change of the list while the sweep runs changes neither the
\* sweep's copy nor its tasks, so an added id waits for the next sweep, and
\* the task of a removed id still writes the previous status and notifies.
C38_SweepChecksItsCopy ==
    /\ [][SweepGetsSession => watch'.current_ids = current_id_list]_vars
    /\ [](watch.pc = "gather" => TasksAre(watch.current_ids))
    /\ [][watch.pc = "gather" /\ watch'.pc = "gather" =>
            watch'.current_ids = watch.current_ids]_vars
    /\ [][watch.pc = "gather" /\ current_id_list' # current_id_list =>
            watch' = watch /\ task' = task]_vars
    /\ [][\A t \in Slots :
            (/\ Unlisted(t)
             /\ task[t].pc \in {"created", "http", "get_app_name"}
             /\ task'[t].pc \in {"notify", "done"}
             /\ ~ReturnsEarly(task'[t].result)) =>
                /\ DictGet(_previous_status', task[t].tf_id) = task'[t].result.status
                /\ task'[t].pc = "notify" <=>
                      ShouldNotify(task'[t].result.status,
                                   DictGet(_previous_status, task[t].tf_id))]_vars
    /\ [][\A t \in Slots :
            (Unlisted(t) /\ task[t].pc = "notify" /\ task'[t].pc # "notify") =>
                task'[t].notify_calls = task[t].notify_calls + 1]_vars

\* C38 witness: the only id was removed while the sweep that checks it
\* was waiting for the page
C38_Witness ==
    /\ watch.pc = "gather"
    /\ watch.current_ids = << <<"a","b","c","1","2","3","4","5">> >>
    /\ current_id_list = << >>
    /\ \E t \in Slots : task[t].pc = "http" /\ task[t].tf_id = <<"a","b","c","1","2","3","4","5">>

\* a state that is reached: the task of the removed id has classified the
\* page as Open, written the status and notified
C38_RemovedIsNotified ==
    /\ watch.pc = "gather"
    /\ current_id_list = << >>
    /\ \E t \in Slots :
          /\ task[t].pc = "done"
          /\ task[t].notify_calls = 1
          /\ DictGet(_previous_status, task[t].tf_id) = OPEN

\* a state that is reached: an id was added while a sweep over the empty
\* list was under way; the sweep has no task for it
C38_AddedWaits ==
    /\ watch.pc = "gather"
    /\ watch.current_ids = << >>
    /\ current_id_list = << <<"a","b","c","1","2","3","4","5">> >>
    /\ \A t \in Slots : task[t].pc = "none"


(***************************************************************************)
(* Claims about the cache in the sweeps, checked under Spec.               *)
(***************************************************************************)
\* the URL the task in slot t checks
TaskUrl(t) == format_link(TESTFLIGHT_URL, task[t].tf_id)

\* the status held by the cache entry of url
EntryStatus(url) == _status_cache[url][1].status

\* a step in which the task in slot t looks up the cache
LooksUp(t) == task[t].pc = "created" /\ task'[t].pc # "created"

\* a step in which the task in slot t gets its result
Classifies(t) == task[t].result.status = None /\ task'[t].result.status # None

\* another task of the sweep checks the same id
HasTwin(t) ==
    \E u \in Slots \ {t} : task[u].pc # "none" /\ task[u].tf_id = task[t].tf_id

\* a task that finds a valid cache entry makes no HTTP request and gets the
\* cached status
HitUsesEntry ==
    [][\A t \in Slots :
          (LooksUp(t) /\ ValidEntry(TaskUrl(t))) =>
              /\ task'[t].gets = 0
              /\ task'[t].pc # "http"
              /\ task'[t].result.cached
              /\ task'[t].result.status = EntryStatus(TaskUrl(t))]_vars

C39_TwinSeesChange ==
    \E t, u \in Slots :
        /\ t # u
        /\ task[t].tf_id = task[u].tf_id
        /\ task[t].gets = 1 /\ task[u].gets = 1
        /\ task[t].result.status = FULL
        /\ task[u].result.status = OPEN
        /\ task[u].should_notify /\ task[u].notify_calls = 1
        /\ task[u].previous_status = FULL
        /\ now - _status_cache[TaskUrl(u)][2] = 0


(***************************************************************************)
(* Claims about failed checks, checked under Spec.                         *)
(***************************************************************************)
\* a step in which the task in slot t is interrupted by an exception
Interrupted(t) == task[t].pc # "raised" /\ task'[t].pc = "raised"

\* C40: a check whose result is Error (404, another non-200 status, a
\* timeout) is counted as a successful check and in the error count;
\* failed_checks grows, by one, only in a step in which a task is
\* interrupted by an exception, and never gets smaller.
C40_ErrorResultIsSuccessfulCheck ==
    /\ [][\A t \in Slots :
            (Classifies(t) /\ task'[t].result.status = ERROR) =>
                /\ _metrics'.successful_checks = _metrics.successful_checks + 1
                /\ _metrics'.status_counts[ERROR] = _metrics.status_counts[ERROR] + 1
                /\ _metrics'.total_checks = _metrics.total_checks + 1
                /\ _metrics'.failed_checks = _metrics.failed_checks]_vars
    /\ [][_metrics'.failed_checks # _metrics.failed_checks =>
            /\ _metrics'.failed_checks = _metrics.failed_checks + 1
            /\ \E t \in Slots : Interrupted(t)]_vars
    /\ [][_metrics'.failed_checks >= _metrics.failed_checks]_vars

\* C40 witness: one check was answered 404 and another timed out; both are
\* counted as successful checks with status Error, none as failed
C40_Witness ==
    /\ \E t, u \in Slots :
          /\ task[t].pc = "done" /\ task[t].result.status = ERROR
          /\ task[t].resp.kind = "http" /\ task[t].resp.http_status = 404
          /\ task[u].pc = "done" /\ task[u].result.status = ERROR
          /\ task[u].resp.kind # "http"
    /\ _metrics.total_checks = 2
    /\ _metrics.successful_checks = 2
    /\ _metrics.status_counts[ERROR] = 2
    /\ _metrics.failed_checks = 0

\* a state that is reached: a task was interrupted after its check was
\* counted, and failed_checks is 1
C40_InterruptedIsFailedCheck ==
    /\ \E t \in Slots : task[t].pc = "raised"
    /\ _metrics.failed_checks = 1
====
